---------------------------- MODULE Spec2Model ----------------------------
(***************************************************************************)
(* Model of jira_ticket_fetcher.py: pull-request selection, code-change   *)
(* formatting, wiki documentation and mention handling, mention            *)
(* validation, rich-text extraction, markdown conversion, field            *)
(* resolution, the batch run with generation and write-back, and main.     *)
(*                                                                         *)
(* Text is modelled as a sequence of one-character strings, so that        *)
(* substring tests, slices, strip() and lower() are computed as Python     *)
(* computes them.                                                          *)
(***************************************************************************)
EXTENDS Integers, Sequences, FiniteSets, TLC

VARIABLES
    pc,               \* position of the modelled operation
    items,            \* GitHub search response: 'items' of the search for the ticket key
    search_outcome,   \* outcome of the GitHub search request
    pull_requests,    \* ticket['pull_requests']: repository -> selected pull request
    code_changes,     \* argument of format_code_changes_for_context
    max_length,       \* its budget
    fmt_out,          \* the text it returns, as a sequence of segments
    ticket_key,       \* ticket key searched for in the wiki
    page,             \* a page the wiki search returns for the key
    valid,            \* result of _is_valid_ticket_mention for the page
    ticket_mentions,  \* mentions search_confluence_for_ticket_mentions keeps for the key
    field_content,    \* argument of _extract_text_content
    extracted,        \* the text it returns
    tickets,          \* the batch fetch_tickets_with_criteria returns
    fetch_confluence, \* FETCH_CONFLUENCE
    wiki_hits,        \* ticket key -> what the wiki search finds for it
    fetch_failing,    \* pages whose content request fails
    confluence_docs,  \* pages fetched as direct mentions, in fetch order
    confluence_mentions, \* ticket key -> mentions found by the search
    page_requests,    \* content requests issued to the wiki, in order
    next_ticket,      \* index of the ticket the batch loop handles next
    contexts,         \* per ticket handled: the wiki section of its context
    outcomes,         \* per ticket: what the generation service and the tracker answer
    generation_contexts, \* per ticket handled: the context generate_test_cases builds
    update_calls,     \* the calls of update_jira_field, in order
    results,          \* per ticket handled: what the loop stores on the ticket
    md_lines,         \* content.split('\n'), the argument of _convert_markdown_to_adf
    md_i,             \* its line index i (counted from 1)
    md_blocks,        \* its blocks, and at the end the list it returns
    ac_override,      \* ACCEPTANCE_CRITERIA_FIELD
    field_catalog,    \* what the tracker answers to the field catalog request
    stdin_reply,      \* what input() gives at the prompt
    issues,           \* the issues the search returns
    ac_field_id,      \* the field id find_acceptance_criteria_field returns
    catalog_requests, \* number of field catalog requests issued
    fetched_tickets,  \* the tickets fetch_tickets_with_criteria returns
    ac_reads,         \* the acceptance-criteria reads of the run, with the field id of each
    jira_email,       \* JIRA_EMAIL
    jira_api_token,   \* JIRA_API_TOKEN
    jql_query,        \* JQL_QUERY, or what is typed at the prompt for it
    preview_mode,     \* PREVIEW_MODE
    generate_flag,    \* GENERATE_TEST_CASES
    tickets_found,    \* number of tickets the query matches
    call_raises,      \* an exception leaves the fetch or the batch run
    main_tickets,     \* tickets, as main receives them
    network_requests, \* the services main has sent requests to
    exit_status       \* how the process ends

prVars == <<items, search_outcome, pull_requests>>

fmtVars == <<code_changes, max_length, fmt_out>>

mentionVars == <<ticket_key, page, valid, ticket_mentions>>

extractVars == <<field_content, extracted>>

runVars == <<tickets, fetch_confluence, wiki_hits, fetch_failing, confluence_docs,
             confluence_mentions, page_requests, next_ticket, contexts, outcomes,
             generation_contexts, update_calls, results>>

mdVars == <<md_lines, md_i, md_blocks>>

resolveVars == <<ac_override, field_catalog, stdin_reply, issues, ac_field_id,
                 catalog_requests, fetched_tickets, ac_reads>>

mainVars == <<jira_email, jira_api_token, jql_query, preview_mode, generate_flag, tickets_found,
              call_raises, main_tickets, network_requests, exit_status>>

vars == <<pc, prVars, fmtVars, mentionVars, extractVars, runVars, mdVars, resolveVars, mainVars>>

(***************************************************************************)
(* Values of the variables an operation does not use                       *)
(***************************************************************************)
IdlePR ==
    /\ search_outcome = "ok"
    /\ items = <<>>
    /\ pull_requests = <<>>

IdleFmt ==
    /\ code_changes = [error |-> TRUE, summary_len |-> 0, files |-> <<>>]
    /\ max_length = 0
    /\ fmt_out = <<>>

IdleMention ==
    /\ ticket_key = <<>>
    /\ page = [title |-> <<>>, body |-> <<>>, excerpt |-> <<>>, fetch |-> "no_id",
               in_storage |-> FALSE]
    /\ valid = "none"
    /\ ticket_mentions = <<>>

IdleExtract ==
    /\ field_content = [kind |-> "none"]
    /\ extracted = <<>>

IdleRun ==
    /\ tickets = <<>>
    /\ fetch_confluence = FALSE
    /\ wiki_hits = <<>>
    /\ fetch_failing = {}
    /\ confluence_docs = <<>>
    /\ confluence_mentions = <<>>
    /\ page_requests = <<>>
    /\ next_ticket = 1
    /\ contexts = <<>>
    /\ outcomes = <<>>
    /\ generation_contexts = <<>>
    /\ update_calls = <<>>
    /\ results = <<>>

IdleMd ==
    /\ md_lines = <<>>
    /\ md_i = 1
    /\ md_blocks = <<>>

IdleResolve ==
    /\ ac_override = "unset"
    /\ field_catalog = [transport_error |-> FALSE, status |-> 200, fields |-> <<>>]
    /\ stdin_reply = "eof"
    /\ issues = <<>>
    /\ ac_field_id = "None"
    /\ catalog_requests = 0
    /\ fetched_tickets = <<>>
    /\ ac_reads = <<>>

IdleMain ==
    /\ jira_email = "unset"
    /\ jira_api_token = "unset"
    /\ jql_query = "env"
    /\ preview_mode = FALSE
    /\ generate_flag = FALSE
    /\ tickets_found = 0
    /\ call_raises = FALSE
    /\ main_tickets = <<>>
    /\ network_requests = {}
    /\ exit_status = "running"

(***************************************************************************)
(* Generic helpers                                                         *)
(***************************************************************************)
Min(a, b) == IF a <= b THEN a ELSE b

Max(a, b) == IF a >= b THEN a ELSE b

Range(s) == {s[i] : i \in DOMAIN s}

\* sequences over S of length at most n
SeqUpTo(S, n) == UNION {[1..k -> S] : k \in 0..n}

(***************************************************************************)
(* Text: a string is a sequence of one-character strings                   *)
(***************************************************************************)
\* str.lower() on one character
LowerChar(c) ==
    CASE c = "A" -> "a"
      [] c = "B" -> "b"
      [] c = "C" -> "c"
      [] c = "D" -> "d"
      [] c = "E" -> "e"
      [] c = "F" -> "f"
      [] c = "G" -> "g"
      [] c = "H" -> "h"
      [] c = "I" -> "i"
      [] c = "J" -> "j"
      [] c = "K" -> "k"
      [] c = "L" -> "l"
      [] c = "M" -> "m"
      [] c = "N" -> "n"
      [] c = "O" -> "o"
      [] c = "P" -> "p"
      [] c = "Q" -> "q"
      [] c = "R" -> "r"
      [] c = "S" -> "s"
      [] c = "T" -> "t"
      [] c = "U" -> "u"
      [] c = "V" -> "v"
      [] c = "W" -> "w"
      [] c = "X" -> "x"
      [] c = "Y" -> "y"
      [] c = "Z" -> "z"
      [] OTHER -> c

\* str.lower()
Lower(s) == [i \in DOMAIN s |-> LowerChar(s[i])]

\* w in t
Contains(t, w) ==
    \E i \in 0..(Len(t) - Len(w)) : SubSeq(t, i + 1, i + Len(w)) = w

\* t.startswith(w)
StartsWith(t, w) == Len(t) >= Len(w) /\ SubSeq(t, 1, Len(w)) = w

\* t.replace(old, ''), old not empty
RECURSIVE Remove(_, _)
Remove(t, old) ==
    IF t = <<>> THEN <<>>
    ELSE IF StartsWith(t, old) THEN Remove(SubSeq(t, Len(old) + 1, Len(t)), old)
    ELSE <<Head(t)>> \o Remove(Tail(t), old)

\* ' '.join(words)
RECURSIVE JoinWords(_)
JoinWords(words) ==
    IF words = <<>> THEN <<>>
    ELSE IF Len(words) = 1 THEN words[1]
    ELSE words[1] \o <<" ">> \o JoinWords(Tail(words))

(***************************************************************************)
(* Mention validation: _is_valid_ticket_mention, and the handling of one   *)
(* search result in search_confluence_for_ticket_mentions                  *)
(***************************************************************************)
MaxWords == 3

PDWPrefix == <<"P", "D", "W", "-">>

BrowsePrefix == <<"b", "r", "o", "w", "s", "e", "/">>

\* line 1944
false_positive_indicators ==
    <<<<"a", "d", "d", "r", "e", "s", "s">>,
      <<"s", "t", "r", "e", "e", "t">>,
      <<"b", "l", "v", "d">>,
      <<"b", "o", "u", "l", "e", "v", "a", "r", "d">>,
      <<"a", "v", "e", "n", "u", "e">>,
      <<"r", "o", "a", "d">>,
      <<"d", "r", "i", "v", "e">>,
      <<"p", "h", "o", "n", "e">>,
      <<"t", "e", "l", "e", "p", "h", "o", "n", "e">>,
      <<"z", "i", "p">>,
      <<"p", "o", "s", "t", "a", "l">>,
      <<"c", "r", "e", "d", "i", "t", " ", "c", "a", "r", "d">>,
      <<"a", "c", "c", "o", "u", "n", "t", " ", "n", "u", "m", "b", "e", "r">>,
      <<"t", "r", "a", "n", "s", "a", "c", "t", "i", "o", "n">>,
      <<"o", "r", "d", "e", "r">>,
      <<"i", "n", "v", "o", "i", "c", "e">>,
      <<"r", "e", "c", "e", "i", "p", "t">>,
      <<"s", "e", "r", "i", "a", "l", " ", "n", "u", "m", "b", "e", "r">>>>

\* line 1959: the positive indicators that do not depend on the ticket key
generic_positive_indicators ==
    <<<<"j", "i", "r", "a">>,
      <<"a", "t", "l", "a", "s", "s", "i", "a", "n">>,
      <<"t", "i", "c", "k", "e", "t">>,
      <<"i", "s", "s", "u", "e">>,
      <<"s", "t", "o", "r", "y">>,
      <<"e", "p", "i", "c">>,
      <<"p", "r", "o", "j", "e", "c", "t">>,
      <<"d", "e", "v", "e", "l", "o", "p", "m", "e", "n", "t">>,
      <<"f", "e", "a", "t", "u", "r", "e">>,
      <<"b", "u", "g">>,
      <<"t", "a", "s", "k">>>>

\* line 1972
development_context ==
    <<<<"p", "d", "w">>,
      <<"p", "r", "o", "j", "e", "c", "t">>,
      <<"d", "e", "v", "e", "l", "o", "p", "m", "e", "n", "t">>,
      <<"j", "i", "r", "a">>,
      <<"t", "i", "c", "k", "e", "t">>,
      <<"i", "s", "s", "u", "e">>,
      <<"s", "t", "o", "r", "y">>,
      <<"e", "p", "i", "c">>,
      <<"t", "a", "s", "k">>,
      <<"f", "e", "a", "t", "u", "r", "e">>,
      <<"i", "m", "p", "r", "o", "v", "e", "m", "e", "n", "t">>>>

TicketKeys == {<<"P", "D", "W", "-", "1", "2", "3", "4">>, <<"A", "B", "C", "-", "1", "2", "3", "4">>}

\* the digits of a ticket key
KeyNumber(key) == SubSeq(key, 5, Len(key))

W_Jira == <<"J", "i", "r", "a">>

W_Street == <<"S", "t", "r", "e", "e", "t">>

W_project == <<"p", "r", "o", "j", "e", "c", "t">>

W_hello == <<"h", "e", "l", "l", "o">>

\* the words a candidate page for the key is written with
PageWords(key) == {key, KeyNumber(key), W_Jira, W_Street, W_project}

PageTitles == {<<>>, W_hello}

AnyIn(indicators, text) == \E k \in DOMAIN indicators : Contains(text, indicators[k])

\* lines 1935-1978
is_valid_ticket_mention(key, content, title) ==
    LET search_text   == Lower(content \o <<" ">> \o title)
        ticket_lower  == Lower(key)
        ticket_number == Remove(key, PDWPrefix)
        positive_indicators ==
            <<ticket_lower, BrowsePrefix \o ticket_lower, ticket_lower \o <<":">>>>
            \o generic_positive_indicators
        has_positive  == AnyIn(positive_indicators, search_text)
    IN  IF content = <<>> /\ title = <<>> THEN FALSE
        ELSE IF AnyIn(false_positive_indicators, search_text)
                /\ Contains(search_text, ticket_number) THEN FALSE
        ELSE IF StartsWith(key, PDWPrefix)
                /\ Contains(search_text, ticket_number)
                /\ ~Contains(search_text, ticket_lower)
             THEN AnyIn(development_context, search_text)
        ELSE has_positive

\* how the search result reaches the validation: without page id, with the
\* page content fetched, or with the content request failed
FetchOutcomes == {"no_id", "fetched", "fetch_failed"}

\* One page the search returns for the key: its title, the body that
\* fetch_confluence_content extracts, the excerpt of the search hit (the
\* first words of the page), and whether the storage-format analysis finds the
\* ticket key in the page's markup.
Pages(key) ==
    UNION {
        {[title |-> t, body |-> JoinWords(ws), excerpt |-> JoinWords(SubSeq(ws, 1, b)),
          fetch |-> f, in_storage |-> st] :
            t \in PageTitles, b \in 0..Len(ws), f \in FetchOutcomes, st \in BOOLEAN}
        : ws \in SeqUpTo(PageWords(key), MaxWords)}

\* the storage-format analysis lists only pages that have an id
WellFormedPage(pg) == pg.in_storage => pg.fetch # "no_id"

Mention(via, has_body) == [id |-> "page", via |-> via, has_body |-> has_body]

\* lines 1872-1910: the search result is kept when the validation accepts it
SearchMentions(key, pg) ==
    IF pg.fetch = "fetched"
    THEN IF is_valid_ticket_mention(key, pg.body, pg.title)
         THEN <<Mention("search", TRUE)>> ELSE <<>>
    ELSE IF is_valid_ticket_mention(key, pg.excerpt, pg.title)
         THEN <<[Mention("search", FALSE) EXCEPT !.id = IF pg.fetch = "no_id" THEN "" ELSE "page"]>>
         ELSE <<>>

\* lines 1912-1922: mentions of the storage-format analysis, unless the page is there already
StorageMentions(pg, found) ==
    IF pg.in_storage /\ ~(\E k \in DOMAIN found : found[k].id = "page")
    THEN <<Mention("storage", TRUE)>> ELSE <<>>

\* lines 1796-1933, for one ticket key and one page
search_confluence_for_ticket_mentions(key, pg) ==
    SearchMentions(key, pg) \o StorageMentions(pg, SearchMentions(key, pg))

InitMention ==
    /\ pc = "mention_start"
    /\ ticket_key \in TicketKeys
    /\ page \in {pg \in Pages(ticket_key) : WellFormedPage(pg)}
    /\ valid = "none"
    /\ ticket_mentions = <<>>
    /\ IdlePR /\ IdleFmt /\ IdleExtract /\ IdleRun /\ IdleMd /\ IdleResolve /\ IdleMain

\* _is_valid_ticket_mention applied to the page's body and title
ValidateMention ==
    /\ pc = "mention_start"
    /\ valid' = is_valid_ticket_mention(ticket_key, page.body, page.title)
    /\ pc' = "mention_validated"
    /\ UNCHANGED <<ticket_key, page, ticket_mentions>>
    /\ UNCHANGED <<prVars, fmtVars, extractVars, runVars, mdVars, resolveVars, mainVars>>

\* search_confluence_for_ticket_mentions for the key
SearchForMentions ==
    /\ pc = "mention_validated"
    /\ ticket_mentions' = search_confluence_for_ticket_mentions(ticket_key, page)
    /\ pc' = "mention_done"
    /\ UNCHANGED <<ticket_key, page, valid>>
    /\ UNCHANGED <<prVars, fmtVars, extractVars, runVars, mdVars, resolveVars, mainVars>>

NextMention == ValidateMention \/ SearchForMentions

SpecMention == InitMention /\ [][NextMention]_vars

\* the title+body text of the page
PageText == page.body \o <<" ">> \o page.title

\* C7: a page whose text contains the literal ticket key and the word
\* "jira" is accepted as a mention, whatever else it contains.
C7_KeyAndJiraAccepted ==
    (pc \in {"mention_validated", "mention_done"}
        /\ Contains(PageText, ticket_key)
        /\ Contains(Lower(PageText), <<"j", "i", "r", "a">>)) => valid = TRUE

\* the page refers to the ticket only by its bare number, next to an
\* address-like or transactional word
OnlyBareNumberInAddress ==
    /\ ~Contains(Lower(PageText), Lower(ticket_key))
    /\ ~page.in_storage
    /\ Contains(PageText, KeyNumber(ticket_key))
    /\ AnyIn(false_positive_indicators, Lower(PageText))

\* C8: a page whose only match is the bare ticket number in an address-like
\* or transactional context is rejected by the validation and is not among
\* the mentions the search returns.
C8_BareNumberInAddressRejected ==
    (pc = "mention_done" /\ OnlyBareNumberInAddress)
        => (valid = FALSE /\ ticket_mentions = <<>>)

\* the page refers to the ticket: by its literal key (a URL-path reference
\* holds the key), or by its bare number next to a domain-context keyword
RefersToTicket ==
    \/ Contains(Lower(PageText), Lower(ticket_key))
    \/ /\ Contains(PageText, KeyNumber(ticket_key))
       /\ \/ AnyIn(development_context, Lower(PageText))
          \/ AnyIn(generic_positive_indicators, Lower(PageText))

\* C24: a page is accepted as a mention only if its title+body text holds
\* the literal ticket key, a URL-path reference to it, or a domain-context
\* keyword together with the bare ticket number; a page with none of these
\* is rejected.
C24_AcceptedOnlyWithReference ==
    pc \in {"mention_validated", "mention_done"} => (valid = TRUE => RefersToTicket)

(***************************************************************************)
(* Pull-request selection: fetch_prs_from_github                            *)
(***************************************************************************)
MaxPRs == 2

PRNumbers == {5, 7, 12}

\* "" is an item whose repository_url is missing
RepoNames == {"", "org/api", "org/web"}

SearchOutcomes == {"ok", "no_token", "denied", "error", "exception"}

\* One search item, with what the detail endpoint would answer for it:
\* merged_at is the merge timestamp GitHub holds for the pull request,
\* detail_ok whether the detail request answers 200.
PRItems ==
    {p \in [repository : RepoNames, number : PRNumbers, state : {"open", "closed"},
            merged_at : BOOLEAN, detail_ok : BOOLEAN] :
        /\ (p.state = "open" => ~p.merged_at)
        /\ (p.state = "open" => p.detail_ok)}

\* GitHub numbers pull requests uniquely inside a repository
DistinctPRs(s) ==
    \A i, j \in DOMAIN s :
        (i # j) => <<s[i].repository, s[i].number>> # <<s[j].repository, s[j].number>>

ItemLists == {s \in SeqUpTo(PRItems, MaxPRs) : DistinctPRs(s)}

\* declined = closed without a merge timestamp
Declined(pr) == pr.state = "closed" /\ ~pr.merged_at

\* lines 1290-1311: group by repository, dropping items without repository
ReposOf(its) == {its[i].repository : i \in DOMAIN its} \ {""}

GroupPRs(its, repo) == SelectSeq(its, LAMBDA p : p.repository = repo)

\* line 1317: sorted(prs, key=number), a stable ascending sort
RECURSIVE InsertSorted(_, _)
InsertSorted(sorted, pr) ==
    IF sorted = <<>> THEN <<pr>>
    ELSE IF pr.number < Head(sorted).number THEN <<pr>> \o sorted
    ELSE <<Head(sorted)>> \o InsertSorted(Tail(sorted), pr)

RECURSIVE SortByNumber(_)
SortByNumber(prs) ==
    IF prs = <<>> THEN <<>>
    ELSE InsertSorted(SortByNumber(SubSeq(prs, 1, Len(prs) - 1)), prs[Len(prs)])

\* lines 1346-1372: the detail record, or the empty dict when the request fails
GetDetailedPrInfo(pr) ==
    IF pr.detail_ok THEN [truthy |-> TRUE, merged_at |-> pr.merged_at]
    ELSE [truthy |-> FALSE, merged_at |-> FALSE]

\* lines 1321-1326: the test that skips a pull request
SkipsPR(pr) ==
    /\ pr.state = "closed"
    /\ GetDetailedPrInfo(pr).truthy
    /\ ~GetDetailedPrInfo(pr).merged_at

\* variant of SelectFirst that gives up at the first skipped pull request
SelectFirstNoRetry(sorted) ==
    IF sorted = <<>> THEN <<>>
    ELSE IF SkipsPR(Head(sorted)) THEN <<>>
    ELSE <<Head(sorted)>>

\* lines 1319-1331: first pull request of the sorted list that is not skipped
RECURSIVE SelectFirst(_)
SelectFirst(sorted) ==
    IF sorted = <<>> THEN <<>>
    ELSE IF SkipsPR(Head(sorted)) THEN SelectFirst(Tail(sorted))
    ELSE <<Head(sorted)>>

\* lines 1313-1333
SelectedPRs(its) ==
    LET chosen == {r \in ReposOf(its) : SelectFirst(SortByNumber(GroupPRs(its, r))) # <<>>}
    IN  [r \in chosen |-> SelectFirst(SortByNumber(GroupPRs(its, r)))[1]]

\* lines 1253-1344: every failure of the search yields the empty map
fetch_prs_from_github(outcome, its) ==
    IF outcome = "ok" /\ its # <<>> THEN SelectedPRs(its) ELSE <<>>

InitPR ==
    /\ pc = "pr_start"
    /\ search_outcome \in SearchOutcomes
    /\ items \in ItemLists
    /\ pull_requests = <<>>
    /\ IdleFmt /\ IdleMention /\ IdleExtract /\ IdleRun /\ IdleMd /\ IdleResolve /\ IdleMain

\* process_tickets_with_test_cases lines 867-889 for one ticket
FetchPRs ==
    /\ pc = "pr_start"
    /\ pull_requests' = fetch_prs_from_github(search_outcome, items)
    /\ pc' = "pr_done"
    /\ UNCHANGED <<items, search_outcome>>
    /\ UNCHANGED <<fmtVars, mentionVars, extractVars, runVars, mdVars, resolveVars, mainVars>>

NextPR == FetchPRs

SpecPR == InitPR /\ [][NextPR]_vars

PRDone == pc = "pr_done" /\ search_outcome = "ok"

PRsOfRepo(r) == Range(GroupPRs(items, r))

LowestNumber(prs) == CHOOSE n \in {p.number : p \in prs} : \A p \in prs : n <= p.number

\* C1: for each repository the pull request selected is the lowest-numbered
\* one that is not declined (closed with no merge timestamp), so with an open
\* #12 and a merged #7 the selection is #7.
C1_LowestNonDeclinedSelected ==
    PRDone =>
        \A r \in ReposOf(items) :
            LET live == {p \in PRsOfRepo(r) : ~Declined(p)}
            IN  live # {} =>
                    /\ r \in DOMAIN pull_requests
                    /\ pull_requests[r].number = LowestNumber(live)

\* C2: a repository whose only pull request is closed without a merge is
\* absent from the returned map, whatever the detail lookup answers.
C2_OnlyDeclinedSelectsNone ==
    PRDone =>
        \A r \in ReposOf(items) :
            (Cardinality(PRsOfRepo(r)) = 1 /\ \A p \in PRsOfRepo(r) : Declined(p))
                => r \notin DOMAIN pull_requests

\* C3 as stated: every repository in which the search found a pull request
\* has an entry in the ticket's pull_requests map (never zero).
C3_ExactlyOnePerRepo ==
    PRDone => \A r \in ReposOf(items) : r \in DOMAIN pull_requests

\* a pull request the detail lookup reports as closed and never merged
ConfirmedDeclined(p) == p.state = "closed" /\ p.detail_ok /\ ~p.merged_at

\* C3 amended: at most one pull request is retained per repository; the map
\* holds an entry for a repository exactly when one of its pull requests is
\* not confirmed declined by the detail lookup, the entry is one of the
\* repository's pull requests, and a repository whose pull requests are all
\* confirmed declined has no entry.
C3_AtMostOnePerRepo ==
    PRDone =>
        /\ DOMAIN pull_requests \subseteq ReposOf(items)
        /\ \A r \in ReposOf(items) :
            /\ (r \in DOMAIN pull_requests) <=> (\E p \in PRsOfRepo(r) : ~ConfirmedDeclined(p))
            /\ (r \in DOMAIN pull_requests) => pull_requests[r] \in PRsOfRepo(r)

\* a repository with a confirmed declined #5 and another pull request, which is retained
C3_Witness ==
    /\ PRDone
    /\ \E r \in DOMAIN pull_requests :
        /\ Cardinality(PRsOfRepo(r)) = 2
        /\ \E p \in PRsOfRepo(r) : ConfirmedDeclined(p) /\ p.number < pull_requests[r].number

(***************************************************************************)
(* Code-change formatting: format_code_changes_for_context                  *)
(*                                                                         *)
(* The returned text is a sequence of segments [kind, file, len]; its      *)
(* length is the sum of the segment lengths.  A patch excerpt is the slice *)
(* patch[:n], a prefix of the patch.                                       *)
(***************************************************************************)
MaxFiles == 2

\* lengths of the literal pieces of text the function emits
DefaultMaxLength == 8000

MaxPatchLength == 2000

PatchReserve == 100

FilesMarkerLen == 44

PatchMarkerLen == 16

DiffOpenLen == 8

DiffCloseLen == 5

TooLargeLen == 41

\* the summary block with one-digit and with two-digit counts
SummaryLens == {135, 139}

\* a file header with a one-character name and with a longer one
HeaderLens == {31, 80}

PatchLens == {0, 1, 50, 120, 2000, 2001, 6000}

Budgets == {150, 400, 2300, DefaultMaxLength}

FileInfos == [header_len : HeaderLens, patch_len : PatchLens]

\* what fetch_pr_code_changes returns: an error record or a file list
CodeChanges ==
    [error : {FALSE}, summary_len : SummaryLens, files : SeqUpTo(FileInfos, MaxFiles)]
    \cup {[error |-> TRUE, summary_len |-> 0, files |-> <<>>]}

Seg(kind, file, len) == [kind |-> kind, file |-> file, len |-> len]

RECURSIVE TextLen(_)
TextLen(segs) == IF segs = <<>> THEN 0 ELSE Head(segs).len + TextLen(Tail(segs))

\* len(s[:m]) for a string of length n: a negative m counts from the end
SliceLen(n, m) == IF m >= 0 THEN Min(n, m) ELSE Max(0, n + m)

\* variant of MaxPatchLen without the per-file cap
MaxPatchLenUncapped(maxlen, current_length) == maxlen - current_length - PatchReserve

\* line 1486
MaxPatchLen(maxlen, current_length) ==
    Min(MaxPatchLength, maxlen - current_length - PatchReserve)

\* variant of PatchSection that cuts the patch without marking the cut
PatchSectionNoMarker(i, patch_len, mpl) ==
    <<Seg("diff_open", i, DiffOpenLen),
      Seg("patch", i, IF patch_len > mpl THEN SliceLen(patch_len, mpl) ELSE patch_len),
      Seg("diff_close", i, DiffCloseLen)>>

\* lines 1487-1490: the diff block of file i, cut when the patch is too long
PatchSection(i, patch_len, mpl) ==
    <<Seg("diff_open", i, DiffOpenLen)>>
    \o (IF patch_len > mpl
        THEN <<Seg("patch", i, SliceLen(patch_len, mpl)), Seg("patch_marker", i, PatchMarkerLen)>>
        ELSE <<Seg("patch", i, patch_len)>>)
    \o <<Seg("diff_close", i, DiffCloseLen)>>

\* lines 1467-1497: the loop over the files, from file i on
RECURSIVE FormatFiles(_, _, _, _, _)
FormatFiles(files, i, context, current_length, maxlen) ==
    IF i > Len(files) THEN context
    ELSE
        LET f == files[i]
            withHeader == context \o <<Seg("file_header", i, f.header_len)>>
            afterHeader == current_length + f.header_len
            section == PatchSection(i, f.patch_len, MaxPatchLen(maxlen, afterHeader))
        IN  IF current_length + f.header_len > maxlen
            THEN context \o <<Seg("files_marker", i, FilesMarkerLen)>>
            ELSE IF f.patch_len = 0
            THEN FormatFiles(files, i + 1, withHeader, afterHeader, maxlen)
            ELSE IF afterHeader + TextLen(section) <= maxlen
            THEN FormatFiles(files, i + 1, withHeader \o section,
                             afterHeader + TextLen(section), maxlen)
            ELSE withHeader \o <<Seg("too_large", i, TooLargeLen)>>

\* variant of format_code_changes_for_context whose running total leaves
\* out the summary block
FormatFromZero(cc, maxlen) ==
    IF cc.error \/ cc.files = <<>> THEN <<>>
    ELSE FormatFiles(cc.files, 1, <<Seg("summary", 0, cc.summary_len)>>, 0, maxlen)

\* lines 1450-1499
format_code_changes_for_context(cc, maxlen) ==
    IF cc.error \/ cc.files = <<>> THEN <<>>
    ELSE FormatFiles(cc.files, 1, <<Seg("summary", 0, cc.summary_len)>>,
                     cc.summary_len, maxlen)

InitFmt ==
    /\ pc = "fmt_start"
    /\ code_changes \in CodeChanges
    /\ max_length \in Budgets
    /\ fmt_out = <<>>
    /\ IdlePR /\ IdleMention /\ IdleExtract /\ IdleRun /\ IdleMd /\ IdleResolve /\ IdleMain

FormatCodeChanges ==
    /\ pc = "fmt_start"
    /\ fmt_out' = format_code_changes_for_context(code_changes, max_length)
    /\ pc' = "fmt_done"
    /\ UNCHANGED <<code_changes, max_length>>
    /\ UNCHANGED <<prVars, mentionVars, extractVars, runVars, mdVars, resolveVars, mainVars>>

NextFmt == FormatCodeChanges

SpecFmt == InitFmt /\ [][NextFmt]_vars

FmtDone == pc = "fmt_done"

HasSeg(kind, i) == \E k \in DOMAIN fmt_out : fmt_out[k].kind = kind /\ fmt_out[k].file = i

LastSeg == fmt_out[Len(fmt_out)]

\* file i does not appear in the text
FileOmitted(i) == ~HasSeg("file_header", i)

\* the patch of file i appears, but not whole
PatchCut(i) ==
    \E k \in DOMAIN fmt_out :
        /\ fmt_out[k].kind = "patch" /\ fmt_out[k].file = i
        /\ fmt_out[k].len < code_changes.files[i].patch_len

\* file i appears, its patch does not
PatchDropped(i) ==
    HasSeg("file_header", i) /\ code_changes.files[i].patch_len > 0 /\ ~HasSeg("patch", i)

Truncated ==
    /\ fmt_out # <<>>
    /\ \E i \in DOMAIN code_changes.files : FileOmitted(i) \/ PatchCut(i) \/ PatchDropped(i)

\* the text ends with a marker, a closing fence after a marker counting as one
EndsWithMarker ==
    /\ fmt_out # <<>>
    /\ \/ LastSeg.kind \in {"files_marker", "too_large"}
       \/ /\ LastSeg.kind = "diff_close"
          /\ Len(fmt_out) >= 2
          /\ fmt_out[Len(fmt_out) - 1].kind = "patch_marker"

\* C4: the returned text is never longer than max_length characters,
\* header and truncation markers included.
C4_WithinBudget == FmtDone => TextLen(fmt_out) <= max_length

\* C5 as stated: whenever a file is omitted or a patch is cut, the returned
\* text ends with a truncation marker.
C5_TruncatedEndsWithMarker == (FmtDone /\ Truncated) => EndsWithMarker

\* C5 amended: an omitted file or a dropped patch means the text ends with
\* the remaining-files marker or the too-large notice; a cut patch excerpt is
\* directly followed by the "... (truncated)" marker inside its diff block,
\* and later files may still follow it.
C5_TruncationMarked ==
    FmtDone =>
        \A i \in DOMAIN code_changes.files :
            /\ (fmt_out # <<>> /\ FileOmitted(i)) => LastSeg.kind \in {"files_marker", "too_large"}
            /\ PatchDropped(i) => LastSeg = Seg("too_large", i, TooLargeLen)
            /\ \A k \in DOMAIN fmt_out :
                (fmt_out[k].kind = "patch" /\ fmt_out[k].file = i
                    /\ fmt_out[k].len < code_changes.files[i].patch_len)
                => (k < Len(fmt_out) /\ fmt_out[k + 1] = Seg("patch_marker", i, PatchMarkerLen))

\* the patch of file 1 is cut and marked, and file 2 is omitted
C5_Witness ==
    /\ FmtDone
    /\ Len(code_changes.files) = 2
    /\ PatchCut(1) /\ HasSeg("patch_marker", 1)
    /\ FileOmitted(2) /\ LastSeg.kind = "files_marker"

\* the segments of the text that precede file i
SegsBefore(i) == SelectSeq(fmt_out, LAMBDA s : s.file < i)

\* the loop got to file i: every earlier file was emitted and none of them
\* ended the text with the too-large notice
LoopReached(i) ==
    \A j \in 1..(i - 1) : HasSeg("file_header", j) /\ ~HasSeg("too_large", j)

\* the header of file i would push the running total past the budget
HeaderOverBudget(i) ==
    /\ LoopReached(i)
    /\ TextLen(SegsBefore(i)) + code_changes.files[i].header_len > max_length

\* C22: the files appear in their original order, and once the header of a
\* file would push the running total past the budget the text ends with the
\* remaining-files marker: no header and no patch of that file or of a later
\* file appears.
C22_InOrderAndNothingAfterMarker ==
    (FmtDone /\ fmt_out # <<>>) =>
        /\ \A k1, k2 \in DOMAIN fmt_out : k1 < k2 => fmt_out[k1].file <= fmt_out[k2].file
        /\ \A i \in DOMAIN code_changes.files :
            HeaderOverBudget(i) =>
                /\ LastSeg = Seg("files_marker", i, FilesMarkerLen)
                /\ \A k \in DOMAIN fmt_out : fmt_out[k].file >= i => k = Len(fmt_out)

\* file 1 is emitted with its header and a patch excerpt, the header of
\* file 2 would pass the budget and the text ends with the marker
C22_Witness ==
    /\ FmtDone
    /\ Len(code_changes.files) = 2
    /\ HasSeg("file_header", 1) /\ HasSeg("patch", 1)
    /\ HeaderOverBudget(2)
    /\ LastSeg = Seg("files_marker", 2, FilesMarkerLen)

\* the budget left when the diff block of the segment at position k opens:
\* max_length less everything up to and including the file's header
RemainingBudget(k) == max_length - TextLen(SubSeq(fmt_out, 1, k - 2))

\* C23: a patch excerpt holds at most min(2000, remaining budget) characters
\* of its file's patch, never more than the patch has, and an excerpt
\* shorter than the patch is directly followed by the "... (truncated)"
\* marker.
C23_ExcerptCappedAndMarked ==
    FmtDone =>
        \A k \in DOMAIN fmt_out :
            fmt_out[k].kind = "patch" =>
                LET patch_len == code_changes.files[fmt_out[k].file].patch_len
                IN  /\ fmt_out[k - 1].kind = "diff_open"
                    /\ fmt_out[k].len <= Min(MaxPatchLength, RemainingBudget(k))
                    /\ fmt_out[k].len <= patch_len
                    /\ fmt_out[k].len < patch_len
                        => /\ k < Len(fmt_out)
                           /\ fmt_out[k + 1].kind = "patch_marker"
                           /\ fmt_out[k + 1].file = fmt_out[k].file

\* one patch cut at the per-file cap and a second one cut below it because
\* less than the reserve is left of the budget
C23_Witness ==
    /\ FmtDone
    /\ \E k \in DOMAIN fmt_out :
        /\ fmt_out[k].kind = "patch" /\ fmt_out[k].file = 1
        /\ fmt_out[k].len = MaxPatchLength
        /\ code_changes.files[1].patch_len > MaxPatchLength
    /\ \E k \in DOMAIN fmt_out :
        /\ fmt_out[k].kind = "patch" /\ fmt_out[k].file = 2
        /\ RemainingBudget(k) < PatchReserve
        /\ 0 < fmt_out[k].len /\ fmt_out[k].len < code_changes.files[2].patch_len

(***************************************************************************)
(* Rich-text extraction: _extract_text_content and the _extract_adf_text   *)
(* that is in effect (the second definition of the class, line 2103)       *)
(***************************************************************************)
MaxBlocks == 2

MaxInline == 2

NoContentProvided == <<"N", "o", " ", "c", "o", "n", "t", "e", "n", "t", " ", "p", "r", "o", "v", "i", "d", "e", "d">>

NL == "\n"

Whitespace == {" ", NL}

\* the text fragments a text node may carry
Fragments == {<<" ", "a">>, <<"b">>, <<" ">>}

\* A node of a document tree (a JSON object).  content_kind tells whether
\* the 'content' key is absent, holds a list or holds null; text_kind the
\* same for 'text'.
Node(type, text_kind, text, content_kind, content) ==
    [type |-> type, text_kind |-> text_kind, text |-> text,
     content_kind |-> content_kind, content |-> content]

TextNodes == {Node("text", "str", f, "absent", <<>>) : f \in Fragments}

\* paragraphs of up to MaxInline text nodes, headings of at most one
BlockNodes ==
    {Node("paragraph", "absent", <<>>, "list", c) : c \in SeqUpTo(TextNodes, MaxInline)}
    \cup {Node("heading", "absent", <<>>, "list", c) : c \in SeqUpTo(TextNodes, 1)}

\* documents with an empty paragraph between two paragraphs of text
SpacedDocuments ==
    {Node("doc", "absent", <<>>, "list",
          <<Node("paragraph", "absent", <<>>, "list", <<f1>>),
            Node("paragraph", "absent", <<>>, "list", <<>>),
            Node("paragraph", "absent", <<>>, "list", <<f2>>)>>) : f1, f2 \in TextNodes}

\* documents that are a dict with a 'content' list
Documents ==
    {Node("doc", "absent", <<>>, "list", c) : c \in SeqUpTo(BlockNodes \cup TextNodes, MaxBlocks)}
    \cup SpacedDocuments

\* dicts of other shapes: no 'content' key, a null 'content', a null 'text'
OddDicts ==
    {Node("doc", "absent", <<>>, "absent", <<>>),
     Node("text", "str", <<"a">>, "absent", <<>>),
     Node("doc", "absent", <<>>, "null", <<>>),
     Node("doc", "absent", <<>>, "list", <<Node("text", "null", <<>>, "absent", <<>>)>>),
     Node("doc", "absent", <<>>, "list", <<Node("text", "absent", <<>>, "absent", <<>>)>>)}

Value(kind, str, int, node) == [kind |-> kind, str |-> str, int |-> int, node |-> node]

NoNode == Node("", "absent", <<>>, "absent", <<>>)

\* the values a Jira field may hold
FieldContents ==
    {Value("none", <<>>, 0, NoNode), Value("empty_dict", <<>>, 0, NoNode)}
    \cup {Value("str", t, 0, NoNode) : t \in {<<>>, <<"a">>, <<" ">>, <<" ", "a">>}}
    \cup {Value("int", <<>>, n, NoNode) : n \in {0, 7}}
    \cup {Value("dict", <<>>, 0, d) : d \in Documents \cup OddDicts}

\* str.strip()
RECURSIVE LStrip(_)
LStrip(t) == IF t # <<>> /\ Head(t) \in Whitespace THEN LStrip(Tail(t)) ELSE t

RECURSIVE RStrip(_)
RStrip(t) ==
    IF t # <<>> /\ t[Len(t)] \in Whitespace THEN RStrip(SubSeq(t, 1, Len(t) - 1)) ELSE t

Strip(t) == RStrip(LStrip(t))

TypeChars(type) ==
    CASE type = "doc" -> <<"d", "o", "c">>
      [] type = "paragraph" -> <<"p", "a", "r", "a", "g", "r", "a", "p", "h">>
      [] type = "heading" -> <<"h", "e", "a", "d", "i", "n", "g">>
      [] type = "text" -> <<"t", "e", "x", "t">>
      [] OTHER -> <<>>

\* repr() of a string without quotes in it
RECURSIVE Escaped(_)
Escaped(t) ==
    IF t = <<>> THEN <<>>
    ELSE (IF Head(t) = NL THEN <<"\\", "n">> ELSE <<Head(t)>>) \o Escaped(Tail(t))

ReprStr(t) == <<"'">> \o Escaped(t) \o <<"'">>

RECURSIVE JoinComma(_)
JoinComma(parts) ==
    IF parts = <<>> THEN <<>>
    ELSE IF Len(parts) = 1 THEN parts[1]
    ELSE parts[1] \o <<",", " ">> \o JoinComma(Tail(parts))

\* str() of a dict, keys in the order type, text, content
RECURSIVE ReprNode(_)
ReprNode(node) ==
    LET typePart == <<"'", "t", "y", "p", "e", "'", ":", " ">> \o ReprStr(TypeChars(node.type))
        textPart ==
            IF node.text_kind = "absent" THEN <<>>
            ELSE << <<"'", "t", "e", "x", "t", "'", ":", " ">>
                    \o (IF node.text_kind = "null" THEN <<"N", "o", "n", "e">> ELSE ReprStr(node.text)) >>
        contentPart ==
            IF node.content_kind = "absent" THEN <<>>
            ELSE << <<"'", "c", "o", "n", "t", "e", "n", "t", "'", ":", " ">>
                    \o (IF node.content_kind = "null" THEN <<"N", "o", "n", "e">>
                        ELSE <<"[">>
                             \o JoinComma([k \in DOMAIN node.content |-> ReprNode(node.content[k])])
                             \o <<"]">>) >>
    IN  <<"{">> \o JoinComma(<<typePart>> \o textPart \o contentPart) \o <<"}">>

\* str(int)
ReprInt(n) == IF n = 0 THEN <<"0">> ELSE <<"7">>

\* the recursion raises on a null 'content' (not iterable) and the join on a null 'text'
RECURSIVE Raises(_)
Raises(node) ==
    \/ node.content_kind = "null"
    \/ node.type = "text" /\ node.text_kind = "null"
    \/ node.content_kind = "list" /\ \E k \in DOMAIN node.content : Raises(node.content[k])

RECURSIVE ConcatAll(_)
ConcatAll(parts) == IF parts = <<>> THEN <<>> ELSE Head(parts) \o ConcatAll(Tail(parts))

\* variant of extract_text_recursive that walks the children last to first
RECURSIVE ExtractReversed(_)
ExtractReversed(node) ==
    (IF node.type = "text" /\ node.text_kind = "str" THEN node.text ELSE <<>>)
    \o (IF node.content_kind = "list"
        THEN ConcatAll([k \in DOMAIN node.content |->
                            ExtractReversed(node.content[Len(node.content) + 1 - k])])
        ELSE <<>>)
    \o (IF node.type = "paragraph" THEN <<NL>> ELSE <<>>)

\* lines 2109-2130
RECURSIVE extract_text_recursive(_)
extract_text_recursive(node) ==
    (IF node.type = "text" /\ node.text_kind = "str" THEN node.text ELSE <<>>)
    \o (IF node.content_kind = "list"
        THEN ConcatAll([k \in DOMAIN node.content |-> extract_text_recursive(node.content[k])])
        ELSE <<>>)
    \o (IF node.type = "paragraph" THEN <<NL>> ELSE <<>>)

\* line 2136: str(adf_content), cut at 500 characters
ReprCut(node) ==
    IF Len(ReprNode(node)) > 500
    THEN SubSeq(ReprNode(node), 1, 500) \o <<".", ".", ".">>
    ELSE ReprNode(node)

\* lines 2103-2136, for a non-empty dict
extract_adf_text(node) ==
    IF Raises(node) THEN ReprCut(node) ELSE Strip(extract_text_recursive(node))

\* lines 208-225
extract_text_content(v) ==
    IF v.kind \in {"none", "empty_dict"} \/ (v.kind = "str" /\ v.str = <<>>)
       \/ (v.kind = "int" /\ v.int = 0)
    THEN NoContentProvided
    ELSE IF v.kind = "str" THEN v.str
    ELSE IF v.kind = "dict"
    THEN IF v.node.content_kind # "absent" THEN extract_adf_text(v.node) ELSE ReprNode(v.node)
    ELSE ReprInt(v.int)

InitExtract ==
    /\ pc = "extract_start"
    /\ field_content \in FieldContents
    /\ extracted = <<>>
    /\ IdlePR /\ IdleFmt /\ IdleMention /\ IdleRun /\ IdleMd /\ IdleResolve /\ IdleMain

ExtractTextContent ==
    /\ pc = "extract_start"
    /\ extracted' = extract_text_content(field_content)
    /\ pc' = "extract_done"
    /\ UNCHANGED field_content
    /\ UNCHANGED <<prVars, fmtVars, mentionVars, runVars, mdVars, resolveVars, mainVars>>

NextExtract == ExtractTextContent

SpecExtract == InitExtract /\ [][NextExtract]_vars

ExtractDone == pc = "extract_done"

\* the text fragments of the text nodes of a tree, in document order
RECURSIVE DocFragments(_)
DocFragments(node) ==
    (IF node.type = "text" /\ node.text_kind = "str" THEN <<node.text>> ELSE <<>>)
    \o (IF node.content_kind = "list"
        THEN ConcatAll([k \in DOMAIN node.content |-> DocFragments(node.content[k])])
        ELSE <<>>)

\* the fragments occur in the text whole, one after the other
RECURSIVE InOrder(_, _)
InOrder(text, frags) ==
    \/ frags = <<>>
    \/ \E i \in 0..(Len(text) - Len(Head(frags))) :
        /\ SubSeq(text, i + 1, i + Len(Head(frags))) = Head(frags)
        /\ InOrder(SubSeq(text, i + Len(Head(frags)) + 1, Len(text)), Tail(frags))

DropNewlines(text) == SelectSeq(text, LAMBDA c : c # NL)

\* C9 as stated: the extracted text contains every text fragment of the
\* document, whole and in document order.
C9_AllFragmentsKept ==
    (ExtractDone /\ field_content.kind = "dict")
        => InOrder(extracted, DocFragments(field_content.node))

\* a document whose 'content' arrays hold well-formed nodes
IsDocument(v) == v.kind = "dict" /\ v.node \in Documents

\* C9 amended: for a document with well-formed text nodes, the extracted
\* text without the line breaks put after paragraphs is the concatenation of
\* all fragments in document order, stripped of the whitespace at its very
\* start and end: apart from that outer whitespace no fragment is dropped,
\* altered or reordered.
C9_FragmentsKeptUpToOuterWhitespace ==
    (ExtractDone /\ IsDocument(field_content))
        => DropNewlines(extracted) = Strip(ConcatAll(DocFragments(field_content.node)))

\* two fragments in two blocks, the first with a leading blank that is stripped
C9_Witness ==
    /\ ExtractDone /\ IsDocument(field_content)
    /\ DocFragments(field_content.node) = << <<" ", "a">>, <<"b">> >>
    /\ Len(field_content.node.content) = 2
    /\ extracted = <<"a", NL, "b">>

AllBlank(t) == \A k \in DOMAIN t : t[k] \in Whitespace

\* the value carries no text: nothing at all, or a document (a dict with a
\* 'content' list) whose nodes hold no text
NoTextualContent(v) ==
    \/ v.kind \in {"none", "empty_dict"}
    \/ v.kind = "str" /\ v.str = <<>>
    \/ /\ IsDocument(v)
       /\ \A k \in DOMAIN DocFragments(v.node) : AllBlank(DocFragments(v.node)[k])

\* C10: a value without textual content yields the sentinel
\* "No content provided", and the result is never the empty string.
C10_SentinelWhenNoText ==
    ExtractDone =>
        /\ NoTextualContent(field_content) => extracted = NoContentProvided
        /\ extracted # <<>>

\* position k of the text starts an empty line that lies between two
\* non-empty lines
EmptyLineInside(t, k) ==
    /\ k < Len(t) /\ t[k] = NL /\ t[k + 1] = NL
    /\ \E a \in 1..(k - 1) : t[a] # NL
    /\ \E b \in (k + 2)..Len(t) : t[b] # NL

\* C27: the text extracted from a document, documents with empty paragraphs
\* included, has its blank lines collapsed: no empty line lies between two
\* non-empty lines.
C27_BlankLinesCollapsed ==
    (ExtractDone /\ IsDocument(field_content))
        => \A k \in DOMAIN extracted : ~EmptyLineInside(extracted, k)

(***************************************************************************)
(* Markdown conversion: _convert_markdown_to_adf, one action per iteration *)
(* of its outer loop                                                       *)
(***************************************************************************)
MaxLines == 3

H1Mark == <<"#", " ">>

H2Mark == <<"#", "#", " ">>

H3Mark == <<"#", "#", "#", " ">>

BoldMark == <<"*", "*">>

\* the grave accent (U+0060), which a TLA+ string cannot hold
Backtick == "GRAVE"

FenceMark == <<Backtick, Backtick, Backtick>>

DashItem == <<"-", " ">>

StarItem == <<"*", " ">>

RuleMark == <<"-", "-", "-">>

\* the lines a generated text is made of
MdLines ==
    {<<>>,
     <<" ">>,
     FenceMark,
     <<Backtick, Backtick, Backtick, "s", "h">>,
     <<"e", "c", "h", "o", " ", "h", "i">>,
     <<" ", "h", "i">>,
     <<"#", "#", " ", "T">>,
     <<"*", "*", "b", "*", "*">>,
     <<"-", " ", "x">>,
     <<"-", "-", "-", " ", "x">>}

\* content.split('\n') of a string: at least one line
MdInputs == UNION {[1..n -> MdLines] : n \in 1..MaxLines}

\* t.endswith(w)
EndsWith(t, w) == Len(t) >= Len(w) /\ SubSeq(t, Len(t) - Len(w) + 1, Len(t)) = w

\* '\n'.join(lines)
RECURSIVE JoinLines(_)
JoinLines(lines) ==
    IF lines = <<>> THEN <<>>
    ELSE IF Len(lines) = 1 THEN lines[1]
    ELSE lines[1] \o <<NL>> \o JoinLines(Tail(lines))

\* a block of the returned list; items: the texts of a bullet list's items
Block(type, level, strong, text, item_texts) ==
    [type |-> type, level |-> level, strong |-> strong, text |-> text, items |-> item_texts]

\* lines[i].strip().startswith(fence)
IsFence(l) == StartsWith(Strip(l), FenceMark)

\* lines[i].strip().startswith('- ') or lines[i].strip().startswith('* ')
IsBullet(l) == StartsWith(Strip(l), DashItem) \/ StartsWith(Strip(l), StarItem)

\* lines 738-740: the index the inner loop of the code-block branch stops at
RECURSIVE CodeEnd(_, _)
CodeEnd(lines, j) ==
    IF j <= Len(lines) /\ ~IsFence(lines[j]) THEN CodeEnd(lines, j + 1) ELSE j

\* lines 750-760: the index the inner loop of the bullet-list branch stops at
RECURSIVE BulletEnd(_, _)
BulletEnd(lines, j) ==
    IF j <= Len(lines) /\ IsBullet(lines[j]) THEN BulletEnd(lines, j + 1) ELSE j

CodeLinesStripped(lines, first, last) ==
    [k \in 1..(last - first + 1) |-> Strip(lines[first + k - 1])]

\* lines 736-740: code_lines, the lines first..last as they are
CodeLines(lines, first, last) == SubSeq(lines, first, last)

\* variant of BulletNext without the increment that ends the iteration
BulletNextNoIncrement(e) == e - 1

\* lines 761 and 780: after the inner loop of the bullet-list branch stopped
\* at index e, the index is stepped back by one and the iteration ends with
\* its i += 1
BulletNext(e) == (e - 1) + 1

\* lines 696-780: one iteration of the outer loop at index i; the blocks it
\* appends and the index after its final i += 1
ConvertLine(lines, i) ==
    LET line == Strip(lines[i])
        n == Len(line)
    IN  IF line = <<>> THEN [blocks |-> <<>>, next |-> i + 1]
        ELSE IF StartsWith(line, H3Mark)
        THEN [blocks |-> <<Block("heading", 3, FALSE, SubSeq(line, 5, n), <<>>)>>,
              next |-> i + 1]
        ELSE IF StartsWith(line, H2Mark)
        THEN [blocks |-> <<Block("heading", 2, FALSE, SubSeq(line, 4, n), <<>>)>>,
              next |-> i + 1]
        ELSE IF StartsWith(line, H1Mark)
        THEN [blocks |-> <<Block("heading", 1, FALSE, SubSeq(line, 3, n), <<>>)>>,
              next |-> i + 1]
        ELSE IF StartsWith(line, BoldMark) /\ EndsWith(line, BoldMark)
        THEN [blocks |-> <<Block("paragraph", 0, TRUE, SubSeq(line, 3, n - 2), <<>>)>>,
              next |-> i + 1]
        ELSE IF StartsWith(line, FenceMark)
        THEN LET e == CodeEnd(lines, i + 1)
                 code_lines == CodeLines(lines, i + 1, e - 1)
             IN  [blocks |-> IF code_lines # <<>>
                             THEN <<Block("codeBlock", 0, FALSE, JoinLines(code_lines), <<>>)>>
                             ELSE <<>>,
                  next |-> e + 1]
        ELSE IF StartsWith(line, DashItem) \/ StartsWith(line, StarItem)
        THEN LET e == BulletEnd(lines, i)
                 list_items == [k \in 1..(e - i) |->
                                   SubSeq(Strip(lines[i + k - 1]), 3,
                                          Len(Strip(lines[i + k - 1])))]
             IN  [blocks |-> <<Block("bulletList", 0, FALSE, <<>>, list_items)>>,
                  next |-> BulletNext(e)]
        ELSE IF StartsWith(line, RuleMark)
        THEN [blocks |-> <<Block("rule", 0, FALSE, <<>>, <<>>)>>, next |-> i + 1]
        ELSE [blocks |-> <<Block("paragraph", 0, FALSE, line, <<>>)>>, next |-> i + 1]

\* lines 782-785: the blocks, or one paragraph wrapping the raw content
ReturnedBlocks(lines, blocks) ==
    IF blocks # <<>> THEN blocks
    ELSE <<Block("paragraph", 0, FALSE, JoinLines(lines), <<>>)>>

InitMd ==
    /\ pc = "md_loop"
    /\ md_lines \in MdInputs
    /\ md_i = 1
    /\ md_blocks = <<>>
    /\ IdlePR /\ IdleFmt /\ IdleMention /\ IdleExtract /\ IdleRun /\ IdleResolve /\ IdleMain

\* lines 696-780: one iteration of the outer loop
ConvertIteration ==
    /\ pc = "md_loop"
    /\ md_i <= Len(md_lines)
    /\ md_blocks' = md_blocks \o ConvertLine(md_lines, md_i).blocks
    /\ md_i' = ConvertLine(md_lines, md_i).next
    /\ UNCHANGED <<pc, md_lines>>
    /\ UNCHANGED <<prVars, fmtVars, mentionVars, extractVars, runVars, resolveVars, mainVars>>

\* lines 782-785: the loop is over, the list is returned
ConvertReturn ==
    /\ pc = "md_loop"
    /\ md_i > Len(md_lines)
    /\ md_blocks' = ReturnedBlocks(md_lines, md_blocks)
    /\ pc' = "md_done"
    /\ UNCHANGED <<md_lines, md_i>>
    /\ UNCHANGED <<prVars, fmtVars, mentionVars, extractVars, runVars, resolveVars, mainVars>>

NextMd == ConvertIteration \/ ConvertReturn

SpecMd == InitMd /\ [][NextMd]_vars

\* the conversion is straight-line code in one thread: a step that can be
\* taken is taken
SpecMdFair == SpecMd /\ WF_vars(NextMd)

MdDone == pc = "md_done"

\* the indexes of the fence lines of the input, in order
FenceLines(lines) ==
    SelectSeq([k \in DOMAIN lines |-> k], LAMBDA k : IsFence(lines[k]))

\* the fenced blocks of the input: the lines between the fence lines 2j-1
\* and 2j, or up to the end of the input when the last fence is not closed
FencedBlocks(lines) ==
    LET f == FenceLines(lines)
    IN  [j \in 1..((Len(f) + 1) \div 2) |->
            SubSeq(lines, f[2 * j - 1] + 1,
                   IF 2 * j <= Len(f) THEN f[2 * j] - 1 ELSE Len(lines))]

\* the texts of the codeBlock nodes of a list of blocks, in order
CodeTexts(blocks) ==
    LET code == SelectSeq(blocks, LAMBDA b : b.type = "codeBlock")
    IN  [k \in DOMAIN code |-> code[k].text]

EmptyParagraph == <<Block("paragraph", 0, FALSE, <<>>, <<>>)>>

\* C11: every fenced code block of the input becomes one codeBlock node
\* whose text is the lines between the fences joined by newlines, and the
\* empty input becomes one paragraph wrapping the empty string.
C11_EveryFenceOneCodeBlock ==
    MdDone =>
        /\ CodeTexts(md_blocks) =
               [j \in DOMAIN FencedBlocks(md_lines) |-> JoinLines(FencedBlocks(md_lines)[j])]
        /\ (md_lines = << <<>> >> => md_blocks = EmptyParagraph)

\* C11 amended: every fenced code block with at least one line between its
\* fences becomes one codeBlock node whose text is those lines joined by
\* newlines, in input order; a fenced block with no line between its fences
\* yields no node; the empty input becomes one paragraph wrapping the empty
\* string.
C11_NonEmptyFenceOneCodeBlock ==
    MdDone =>
        /\ LET filled == SelectSeq(FencedBlocks(md_lines), LAMBDA b : b # <<>>)
           IN  CodeTexts(md_blocks) = [j \in DOMAIN filled |-> JoinLines(filled[j])]
        /\ (md_lines = << <<>> >> => md_blocks = EmptyParagraph)

\* the fenced block holding the line "echo hi" became one codeBlock node
C11_Witness ==
    /\ MdDone
    /\ Len(md_lines) = 3
    /\ IsFence(md_lines[1]) /\ IsFence(md_lines[3])
    /\ md_lines[2] = <<"e", "c", "h", "o", " ", "h", "i">>
    /\ md_blocks = <<Block("codeBlock", 0, FALSE, <<"e", "c", "h", "o", " ", "h", "i">>, <<>>)>>

\* the textual content of a line: the line without the surrounding
\* whitespace and without its markdown markup
TextOfLine(l) ==
    LET t == Strip(l)
        n == Len(t)
    IN  IF StartsWith(t, H3Mark) THEN SubSeq(t, 5, n)
        ELSE IF StartsWith(t, H2Mark) THEN SubSeq(t, 4, n)
        ELSE IF StartsWith(t, H1Mark) THEN SubSeq(t, 3, n)
        ELSE IF StartsWith(t, BoldMark) /\ EndsWith(t, BoldMark) THEN SubSeq(t, 3, n - 2)
        ELSE IF StartsWith(t, DashItem) \/ StartsWith(t, StarItem) THEN SubSeq(t, 3, n)
        ELSE IF StartsWith(t, RuleMark) THEN Strip(SubSeq(t, 4, n))
        ELSE t

\* text t is present in some node of the blocks
InSomeNode(blocks, t) ==
    \E k \in DOMAIN blocks :
        \/ Contains(blocks[k].text, t)
        \/ \E j \in DOMAIN blocks[k].items : Contains(blocks[k].items[j], t)

\* C12: the conversion drops nothing but whitespace-only lines: the textual
\* content of every other line (a fence line counting as markup) is present
\* in some node of the returned list.
C12_NothingDropped ==
    MdDone =>
        \A k \in DOMAIN md_lines :
            (Strip(md_lines[k]) # <<>> /\ ~IsFence(md_lines[k]))
                => InSomeNode(md_blocks, TextOfLine(md_lines[k]))

\* C30: the conversion terminates on every input: each iteration of the
\* outer loop moves the line index forward by at least one, the bullet-list
\* branch and an unterminated code fence included, and the conversion
\* reaches its return.
C30_ConversionTerminates ==
    /\ [][ConvertIteration => md_i' > md_i]_vars
    /\ <>MdDone

\* a bullet list followed by a code fence that is never closed: the fence
\* consumed the rest of the input and the conversion returned
C30_Witness ==
    /\ MdDone
    /\ Len(md_lines) = 3
    /\ IsBullet(md_lines[1]) /\ IsFence(md_lines[2]) /\ ~IsFence(md_lines[3])
    /\ md_i = Len(md_lines) + 2

(***************************************************************************)
(* Field resolution: get_field_info, find_acceptance_criteria_field and    *)
(* the use fetch_tickets_with_criteria makes of the field id               *)
(***************************************************************************)
MaxFields == 2

MaxIssues == 2

\* lines 88-96
ac_field_names ==
    <<<<"a", "c", "c", "e", "p", "t", "a", "n", "c", "e", " ", "c", "r", "i", "t", "e", "r", "i", "a">>,
      <<"a", "c", "c", "e", "p", "t", "a", "n", "c", "e", "c", "r", "i", "t", "e", "r", "i", "a">>,
      <<"a", "c", "c", "e", "p", "t", "a", "n", "c", "e", "_", "c", "r", "i", "t", "e", "r", "i", "a">>,
      <<"a", "c">>,
      <<"c", "r", "i", "t", "e", "r", "i", "a">>,
      <<"d", "e", "f", "i", "n", "i", "t", "i", "o", "n", " ", "o", "f", " ", "d", "o", "n", "e">>,
      <<"d", "o", "d">>>>

\* an entry of the field catalog; name_kind: the 'name' key holds a string
\* ("str"), holds null ("null") or is absent; has_id: the 'id' key is there
Field(name_kind, name, has_id, id) ==
    [name_kind |-> name_kind, name |-> name, has_id |-> has_id, id |-> id]

CatalogEntries ==
    {Field("str", <<"S", "t", "o", "r", "y">>, TRUE, "customfield_1"),
     Field("str", <<"A", "C">>, TRUE, "customfield_2"),
     Field("str", <<"I", "m", "p", "a", "c", "t">>, TRUE, "impact"),
     Field("absent", <<>>, TRUE, "customfield_3"),
     Field("null", <<>>, TRUE, "customfield_4"),
     Field("str", <<"S", "t", "o", "r", "y">>, FALSE, ""),
     Field("str", <<"A", "C">>, FALSE, "")}

\* f['id'].startswith('customfield_')
IsCustomField(id) == id \in {"customfield_1", "customfield_2", "customfield_3", "customfield_4"}

\* the answers to the catalog request: a status and a body, or no answer
CatalogResponses ==
    {[transport_error |-> FALSE, status |-> 200, fields |-> fs] :
        fs \in SeqUpTo(CatalogEntries, MaxFields)}
    \cup {[transport_error |-> FALSE, status |-> 500, fields |-> <<>>],
          [transport_error |-> TRUE, status |-> 0, fields |-> <<>>]}

\* ACCEPTANCE_CRITERIA_FIELD: not set, set to the empty string, set to an id
Overrides == {"unset", "", "customfield_7"}

\* input() at the prompt: end of input (no terminal), the Enter key, an id
StdinReplies == {"eof", "", "customfield_9"}

\* lines 61-75: the list of fields, or raised when the request gets no answer
get_field_info(response) ==
    IF response.transport_error THEN [raised |-> TRUE, fields |-> <<>>]
    ELSE IF response.status = 200 THEN [raised |-> FALSE, fields |-> response.fields]
    ELSE [raised |-> FALSE, fields |-> <<>>]

NameHasSynonymCaseSensitive(name) ==
    \E k \in DOMAIN ac_field_names : Contains(name, ac_field_names[k])

\* lines 102-103: any(ac_name in field_name ...) on the lower-cased name
NameHasSynonym(name) ==
    \E k \in DOMAIN ac_field_names : Contains(Lower(name), ac_field_names[k])

\* lines 101-106: the loop over the catalog from entry k on; the id found,
\* "None" when nothing is found, or raised
RECURSIVE SearchCatalog(_, _)
SearchCatalog(fields, k) ==
    IF k > Len(fields) THEN [raised |-> FALSE, found |-> "None"]
    ELSE IF fields[k].name_kind = "null" THEN [raised |-> TRUE, found |-> "None"]
    ELSE IF NameHasSynonym(fields[k].name)
         THEN (IF fields[k].has_id THEN [raised |-> FALSE, found |-> fields[k].id]
               ELSE [raised |-> TRUE, found |-> "None"])
    ELSE SearchCatalog(fields, k + 1)

\* lines 110-112: listing the custom fields raises on an entry without 'id'
\* and on a custom field without 'name'
ListingRaises(fields) ==
    \/ \E k \in DOMAIN fields : ~fields[k].has_id
    \/ \E k \in DOMAIN fields : IsCustomField(fields[k].id) /\ fields[k].name_kind = "absent"

\* lines 115-120: the id typed at the prompt, if any
Prompt(reply) == IF reply \in {"eof", ""} THEN "None" ELSE reply

\* lines 77-122
find_acceptance_criteria_field(override, response, reply) ==
    IF override \notin {"unset", ""}
    THEN [raised |-> FALSE, field_id |-> override, requests |-> 0]
    ELSE LET info == get_field_info(response)
             search == SearchCatalog(info.fields, 1)
         IN  IF info.raised \/ search.raised
             THEN [raised |-> TRUE, field_id |-> "None", requests |-> 1]
             ELSE IF search.found # "None"
             THEN [raised |-> FALSE, field_id |-> search.found, requests |-> 1]
             ELSE IF ListingRaises(info.fields)
             THEN [raised |-> TRUE, field_id |-> "None", requests |-> 1]
             ELSE [raised |-> FALSE, field_id |-> Prompt(reply), requests |-> 1]

\* lines 277-279: the custom fields added to the search raise on an entry
\* without 'id', and the request may get no answer
CustomFieldsRaise(response) ==
    \/ get_field_info(response).raised
    \/ \E k \in DOMAIN get_field_info(response).fields :
           ~get_field_info(response).fields[k].has_id

\* lines 294-298: acceptance_criteria of one issue
AcceptanceCriteriaOf(issue, field_id) ==
    IF field_id # "None" /\ issue.has_ac_field THEN "extracted" ELSE "None"

\* an issue the search returns: whether it carries the acceptance-criteria
\* field, and whether it has a parent that is fetched (FETCH_PARENT_CONTEXT)
Issues == [has_ac_field : BOOLEAN, has_parent : BOOLEAN]

AcRead(of, field_id) == [of |-> of, field_id |-> field_id]

\* lines 1043 and 1110: the parent and its child issues are read with the
\* field id of the environment, which is None when the variable is unset or
\* empty
EnvironmentFieldId(override) == IF override \in {"unset", ""} THEN "None" ELSE override

\* lines 294-298, 1043-1074, 1110-1142: the acceptance-criteria reads made
\* for one issue: the issue itself, then its parent and the parent's
\* child issues
ReadsOfIssue(issue, field_id, override) ==
    <<AcRead("primary", field_id)>>
    \o (IF issue.has_parent
        THEN <<AcRead("parent", EnvironmentFieldId(override)),
               AcRead("sibling", EnvironmentFieldId(override))>>
        ELSE <<>>)

InitResolve ==
    /\ pc = "resolve_start"
    /\ ac_override \in Overrides
    /\ field_catalog \in CatalogResponses
    /\ stdin_reply \in StdinReplies
    /\ issues \in SeqUpTo(Issues, MaxIssues)
    /\ ac_field_id = "None"
    /\ catalog_requests = 0
    /\ fetched_tickets = <<>>
    /\ ac_reads = <<>>
    /\ IdlePR /\ IdleFmt /\ IdleMention /\ IdleExtract /\ IdleRun /\ IdleMd /\ IdleMain

\* line 262: fetch_tickets_with_criteria resolves the field
ResolveField ==
    /\ pc = "resolve_start"
    /\ LET r == find_acceptance_criteria_field(ac_override, field_catalog, stdin_reply)
       IN  /\ ac_field_id' = r.field_id
           /\ catalog_requests' = r.requests
           /\ pc' = IF r.raised THEN "resolve_raised" ELSE "resolved"
    /\ UNCHANGED <<ac_override, field_catalog, stdin_reply, issues, fetched_tickets, ac_reads>>
    /\ UNCHANGED <<prVars, fmtVars, mentionVars, extractVars, runVars, mdVars, mainVars>>

\* lines 264-326: the catalog is requested again for the custom fields, the
\* issues are searched and a ticket is built from each
FetchTickets ==
    /\ pc = "resolved"
    /\ catalog_requests' = catalog_requests + 1
    /\ IF CustomFieldsRaise(field_catalog)
       THEN /\ pc' = "fetch_raised"
            /\ fetched_tickets' = fetched_tickets
            /\ ac_reads' = ac_reads
       ELSE /\ pc' = "fetched"
            /\ fetched_tickets' =
                   [k \in DOMAIN issues |->
                       [acceptance_criteria |-> AcceptanceCriteriaOf(issues[k], ac_field_id)]]
            /\ ac_reads' =
                   ConcatAll([k \in DOMAIN issues |->
                                 ReadsOfIssue(issues[k], ac_field_id, ac_override)])
    /\ UNCHANGED <<ac_override, field_catalog, stdin_reply, issues, ac_field_id>>
    /\ UNCHANGED <<prVars, fmtVars, mentionVars, extractVars, runVars, mdVars, mainVars>>

NextResolve == ResolveField \/ FetchTickets

SpecResolve == InitResolve /\ [][NextResolve]_vars

\* the catalog is what the tracker's field API returns: the request is
\* answered and every entry has a name and an id
WellFormedCatalog ==
    /\ ~field_catalog.transport_error
    /\ \A k \in DOMAIN field_catalog.fields :
        field_catalog.fields[k].name_kind = "str" /\ field_catalog.fields[k].has_id

\* the display name contains one of the synonyms, letter case set aside
ContainsSynonymIgnoringCase(name) ==
    \E syn \in Range(ac_field_names) : Contains(Lower(name), Lower(syn))

\* entry k is the first of the catalog whose display name contains a synonym
FirstSynonymField(k) ==
    /\ k \in DOMAIN get_field_info(field_catalog).fields
    /\ ContainsSynonymIgnoringCase(field_catalog.fields[k].name)
    /\ \A j \in 1..(k - 1) : ~ContainsSynonymIgnoringCase(field_catalog.fields[j].name)

OverrideSet == ac_override \notin {"unset", ""}

\* C18: an override that is set (not empty) is returned without a catalog
\* request; otherwise the id of the first catalog field whose display name
\* contains a synonym, compared case-insensitively, is returned.
C18_OverrideElseFirstSynonym ==
    (pc = "resolved" /\ WellFormedCatalog) =>
        /\ OverrideSet => (ac_field_id = ac_override /\ catalog_requests = 0)
        /\ ~OverrideSet =>
              \A k \in DOMAIN field_catalog.fields :
                  FirstSynonymField(k) => ac_field_id = field_catalog.fields[k].id

\* no override, and the second entry, named "AC", is the first with a
\* synonym in its name
C18_Witness ==
    /\ pc = "resolved" /\ WellFormedCatalog /\ ~OverrideSet
    /\ FirstSynonymField(2)
    /\ field_catalog.fields[2].name = <<"A", "C">>
    /\ ac_field_id = "customfield_2"

\* C19: without a terminal, field resolution never raises for any catalog,
\* and after it the tickets are fetched; when no field is found every
\* ticket has acceptance_criteria None.
C19_ResolutionNeverRaises ==
    stdin_reply = "eof" =>
        /\ pc \notin {"resolve_raised", "fetch_raised"}
        /\ (pc = "fetched" /\ ac_field_id = "None") =>
              \A k \in DOMAIN fetched_tickets :
                  fetched_tickets[k].acceptance_criteria = "None"

\* C28: the acceptance-criteria field id is resolved once and stays fixed:
\* every acceptance-criteria read of the run, of a primary ticket, of a
\* parent or of a sibling, uses the field id the resolver returned.
C28_EveryReadUsesResolvedField ==
    \A k \in DOMAIN ac_reads : ac_reads[k].field_id = ac_field_id

(***************************************************************************)
(* The batch run, process_tickets_with_test_cases: wiki documentation and  *)
(* wiki mentions gathered for the batch, and the wiki section of the       *)
(* context built for each ticket                                           *)
(***************************************************************************)
MaxTickets == 2

PageIds == {"p1", "p2"}

ParentKey == "PAR-1"

KeyName(i) ==
    CASE i = 1 -> "T-1"
      [] i = 2 -> "T-2"
      [] i = 3 -> "T-3"
      [] OTHER -> "T-4"

\* page ids of the wiki links found in a ticket's text (with its parent's
\* and siblings' text), as extract_mentioned_on_links lists them
LinkLists == {<<>>, <<"p1">>, <<"p1", "p2">>}

\* what a ticket carries besides its key, wiki links and parent: the length
\* of its description, its acceptance criteria (None when has_ac is FALSE),
\* its pull request ("none": no pull request found, "bare": one without
\* body and code changes, "described": one with a body or code changes),
\* and whether comments and attachments were fetched for it
Profile(description_len, has_ac, ac_len, pr, has_comments, has_attachments) ==
    [description_len |-> description_len, has_ac |-> has_ac, ac_len |-> ac_len, pr |-> pr,
     has_comments |-> has_comments, has_attachments |-> has_attachments]

PlainProfile == Profile(120, FALSE, 0, "none", FALSE, FALSE)

\* a ticket of the batch; has_parent: it carries a parent_ticket entry
Ticket(key, links, has_parent, p) ==
    [key |-> key, links |-> links, has_parent |-> has_parent,
     description_len |-> p.description_len, has_ac |-> p.has_ac, ac_len |-> p.ac_len,
     pr |-> p.pr, has_comments |-> p.has_comments, has_attachments |-> p.has_attachments]

TicketsOfBatch(n) ==
    {t \in [1..n -> {Ticket(KeyName(i), l, h, PlainProfile) :
                        i \in 1..n, l \in LinkLists, h \in BOOLEAN}] :
        \A i \in 1..n : t[i].key = KeyName(i)}

Batches == UNION {TicketsOfBatch(n) : n \in 1..MaxTickets}

\* what the wiki holds for one key: the pages the CQL search returns and
\* the validation accepts, and the pages the storage-format analysis finds
HitMenu ==
    {[search |-> <<>>, storage |-> <<>>],
     [search |-> <<"p1">>, storage |-> <<>>],
     [search |-> <<>>, storage |-> <<"p1">>],
     [search |-> <<"p1", "p2">>, storage |-> <<"p1">>]}

FailingMenu == {{}, {"p2"}}

\* related_issues of the parent: the tickets of the batch that are its children
SiblingKeys(tks) == SelectSeq([i \in DOMAIN tks |-> tks[i]], LAMBDA t : t.has_parent)

\* the keys find_confluence_mentions_for_tickets searches for (lines 1982-1996)
KeysToSearch(tks) ==
    {tks[i].key : i \in DOMAIN tks}
    \cup (IF \E i \in DOMAIN tks : tks[i].has_parent THEN {ParentKey} ELSE {})

AllKeys == {KeyName(i) : i \in 1..MaxTickets} \cup {ParentKey}

\* lines 1625-1632: the links of one ticket; acc = [docs, requests]
RECURSIVE FetchLinks(_, _, _)
FetchLinks(links, failing, acc) ==
    IF links = <<>> THEN acc
    ELSE IF Head(links) \in Range(acc.docs) THEN FetchLinks(Tail(links), failing, acc)
    ELSE FetchLinks(Tail(links), failing,
            [docs |-> IF Head(links) \in failing THEN acc.docs
                      ELSE Append(acc.docs, Head(links)),
             requests |-> Append(acc.requests, Head(links))])

\* lines 1599-1639
RECURSIVE fetch_all_mentioned_documentation(_, _, _)
fetch_all_mentioned_documentation(tks, failing, acc) ==
    IF tks = <<>> THEN acc
    ELSE fetch_all_mentioned_documentation(Tail(tks), failing,
            FetchLinks(Head(tks).links, failing, acc))

MentionOf(pg, has_body) == [page |-> pg, has_body |-> has_body]

\* lines 1872-1910: every search result has its content requested; the
\* mention carries a body when the request succeeds
SearchResults(hit, failing) ==
    [k \in DOMAIN hit.search |-> MentionOf(hit.search[k], hit.search[k] \notin failing)]

\* lines 1912-1922: storage-format mentions of pages not found by the search
StorageResults(hit) ==
    SelectSeq([k \in DOMAIN hit.storage |-> MentionOf(hit.storage[k], TRUE)],
              LAMBDA m : m.page \notin Range(hit.search))

\* lines 1796-1933: the mentions kept for one key
MentionsForKey(hit, failing) == SearchResults(hit, failing) \o StorageResults(hit)

\* lines 1980-1998: key -> mentions, for the keys that have some
find_confluence_mentions_for_tickets(tks, hits, failing) ==
    [k \in {key \in KeysToSearch(tks) : MentionsForKey(hits[key], failing) # <<>>}
        |-> MentionsForKey(hits[k], failing)]

\* content requests of the mention search, key by key
RECURSIVE MentionRequests(_, _)
MentionRequests(keys, hits) ==
    IF keys = <<>> THEN <<>> ELSE hits[Head(keys)].search \o MentionRequests(Tail(keys), hits)

KeyOrder(tks) ==
    [i \in DOMAIN tks |-> tks[i].key]
    \o (IF \E i \in DOMAIN tks : tks[i].has_parent THEN <<ParentKey>> ELSE <<>>)

Entry(section, pg, key, has_content) ==
    [section |-> section, page |-> pg, key |-> key, has_content |-> has_content]

\* lines 938-948: every fetched document goes into the context of every ticket
DocumentationContext(docs) ==
    [k \in DOMAIN docs |-> Entry("documentation", docs[k], "", TRUE)]

\* lines 955-964
RelevantKeys(tks, i) ==
    <<tks[i].key>>
    \o (IF tks[i].has_parent
        THEN <<ParentKey>>
             \o SelectSeq([k \in DOMAIN SiblingKeys(tks) |-> SiblingKeys(tks)[k].key],
                          LAMBDA key : key # tks[i].key)
        ELSE <<>>)

\* lines 966-983
RECURSIVE MentionContext(_, _)
MentionContext(keys, mentions) ==
    IF keys = <<>> THEN <<>>
    ELSE (IF Head(keys) \in DOMAIN mentions
          THEN [k \in DOMAIN mentions[Head(keys)] |->
                    Entry("mentions", mentions[Head(keys)][k].page, Head(keys),
                          mentions[Head(keys)][k].has_body)]
          ELSE <<>>)
         \o MentionContext(Tail(keys), mentions)

\* lines 938-985: the wiki section of the context of ticket i
ConfluenceContext(tks, i, docs, mentions) ==
    DocumentationContext(docs) \o MentionContext(RelevantKeys(tks, i), mentions)

(***************************************************************************)
(* The batch run: the context handed to the generation service, the       *)
(* generation call and the write-back of its result                       *)
(***************************************************************************)
MaxBatch == 3

NoneLen == 4

DescriptionLens == {0, 9000}

AcLens == {9000}

Profiles ==
    {Profile(d, FALSE, 0, pr, c, a) :
        d \in DescriptionLens, pr \in {"none", "bare", "described"},
        c \in BOOLEAN, a \in BOOLEAN}
    \cup {Profile(d, TRUE, ac, pr, c, a) :
        d \in DescriptionLens, ac \in AcLens, pr \in {"none", "bare", "described"},
        c \in BOOLEAN, a \in BOOLEAN}

\* what the services answer for one ticket.  gen: the generation call
\* raises ("error"), returns an empty text ("empty") or a text ("text");
\* transport_error: the update request raises instead of answering;
\* status: the status of the tracker's answer to the update
Outcome(gen, transport_error, status) ==
    [gen |-> gen, transport_error |-> transport_error, status |-> status]

Statuses == {200, 204, 400}

Outcomes ==
    {Outcome("error", FALSE, 0), Outcome("empty", FALSE, 0), Outcome("text", TRUE, 0)}
    \cup {Outcome("text", FALSE, st) : st \in Statuses}

\* a section of the context; entries: the pages of the wiki section
Section(name, key, description_len, ac_len, entries) ==
    [name |-> name, key |-> key, description_len |-> description_len, ac_len |-> ac_len,
     entries |-> entries]

BaseSectionTruncated(t) ==
    Section("base", t.key, Min(t.description_len, 2000),
            IF t.has_ac THEN Min(t.ac_len, 2000) ELSE NoneLen, <<>>)

\* lines 445-460: key, summary, description and acceptance criteria as the
\* ticket holds them; acceptance criteria that are None are printed 'None'
BaseSection(t) ==
    Section("base", t.key, t.description_len, IF t.has_ac THEN t.ac_len ELSE NoneLen, <<>>)

\* lines 891-909: the pull requests that have a body or code changes
PrContext(t) ==
    IF t.pr = "described" THEN <<Section("pull_request", t.key, 0, 0, <<>>)>> ELSE <<>>

\* lines 912-934
ParentContext(t) ==
    IF t.has_parent THEN <<Section("parent", ParentKey, 0, 0, <<>>)>> ELSE <<>>

\* lines 2138-2162
build_comments_context(t) ==
    IF t.has_comments THEN <<Section("comments", t.key, 0, 0, <<>>)>> ELSE <<>>

\* lines 2164-2182
build_attachments_context(t) ==
    IF t.has_attachments THEN <<Section("attachments", t.key, 0, 0, <<>>)>> ELSE <<>>

\* variant of GenerationContext that puts the comments and attachments
\* before the enrichment passed in by the loop
GenerationContextCommentsFirst(t, pr_context, parent_context, confluence_context) ==
    <<BaseSection(t)>>
    \o build_comments_context(t)
    \o build_attachments_context(t)
    \o pr_context
    \o parent_context
    \o (IF confluence_context # <<>>
        THEN <<Section("confluence", t.key, 0, 0, confluence_context)>>
        ELSE <<>>)

\* lines 445-486: the context, section after section
GenerationContext(t, pr_context, parent_context, confluence_context) ==
    <<BaseSection(t)>>
    \o pr_context
    \o parent_context
    \o (IF confluence_context # <<>>
        THEN <<Section("confluence", t.key, 0, 0, confluence_context)>>
        ELSE <<>>)
    \o build_comments_context(t)
    \o build_attachments_context(t)

\* lines 443-688: the text the service returns ("none" when the call
\* raises, lines 684-688) and the context
generate_test_cases(t, pr_context, parent_context, confluence_context, o) ==
    [test_cases |-> IF o.gen = "error" THEN "none" ELSE o.gen,
     generation_context |->
        GenerationContext(t, pr_context, parent_context, confluence_context)]

UpdateAnySuccessStatus(status) == status \in 200..299

\* lines 813-819
update_jira_field(status) == status = 204

WriteBackUnlessNone(test_cases, o) ==
    IF test_cases # "none"
    THEN [update_called |-> TRUE, raised |-> o.transport_error,
          test_cases_updated |->
              IF o.transport_error THEN "unset"
              ELSE IF update_jira_field(o.status) THEN "True" ELSE "False",
          has_test_cases |-> ~o.transport_error /\ update_jira_field(o.status),
          has_generation_context |-> TRUE]
    ELSE [update_called |-> FALSE, raised |-> FALSE, test_cases_updated |-> "False",
          has_test_cases |-> FALSE, has_generation_context |-> FALSE]

\* lines 989-1005: what the loop does with the generated text and what it
\* stores on the ticket; raised: the update request raises, which nothing
\* in the loop catches
WriteBack(test_cases, o) ==
    IF test_cases = "text"
    THEN [update_called |-> TRUE, raised |-> o.transport_error,
          test_cases_updated |->
              IF o.transport_error THEN "unset"
              ELSE IF update_jira_field(o.status) THEN "True" ELSE "False",
          has_test_cases |-> ~o.transport_error /\ update_jira_field(o.status),
          has_generation_context |-> TRUE]
    ELSE [update_called |-> FALSE, raised |-> FALSE, test_cases_updated |-> "False",
          has_test_cases |-> FALSE, has_generation_context |-> FALSE]

\* the call of update_jira_field for ticket t
UpdateCall(t, o) ==
    [key |-> t.key, transport_error |-> o.transport_error, status |-> o.status,
     returned |-> ~o.transport_error /\ update_jira_field(o.status)]

Responsive == Outcome("text", FALSE, 204)

InitRun ==
    /\ pc = "run_start"
    /\ tickets \in Batches
    /\ fetch_confluence \in BOOLEAN
    /\ wiki_hits \in [AllKeys -> HitMenu]
    /\ fetch_failing \in FailingMenu
    /\ confluence_docs = <<>>
    /\ confluence_mentions = <<>>
    /\ page_requests = <<>>
    /\ next_ticket = 1
    /\ contexts = <<>>
    /\ outcomes = [i \in DOMAIN tickets |-> Responsive]
    /\ generation_contexts = <<>>
    /\ update_calls = <<>>
    /\ results = <<>>
    /\ IdlePR /\ IdleFmt /\ IdleMention /\ IdleExtract /\ IdleMd /\ IdleResolve /\ IdleMain

\* lines 833-834: the documentation linked from the tickets
FetchDocumentation ==
    /\ pc = "run_start"
    /\ fetch_confluence
    /\ LET r == fetch_all_mentioned_documentation(tickets, fetch_failing,
                    [docs |-> <<>>, requests |-> <<>>])
       IN  /\ confluence_docs' = r.docs
           /\ page_requests' = r.requests
    /\ pc' = "run_docs"
    /\ UNCHANGED <<tickets, fetch_confluence, wiki_hits, fetch_failing, confluence_mentions,
                   next_ticket, contexts, outcomes, generation_contexts, update_calls,
                   results>>
    /\ UNCHANGED <<prVars, fmtVars, mentionVars, extractVars, mdVars, resolveVars, mainVars>>

\* line 835: the mentions of the tickets' and parents' keys
FindMentions ==
    /\ pc = "run_docs"
    /\ confluence_mentions' =
            find_confluence_mentions_for_tickets(tickets, wiki_hits, fetch_failing)
    /\ page_requests' = page_requests \o MentionRequests(KeyOrder(tickets), wiki_hits)
    /\ pc' = "run_loop"
    /\ UNCHANGED <<tickets, fetch_confluence, wiki_hits, fetch_failing, confluence_docs,
                   next_ticket, contexts, outcomes, generation_contexts, update_calls,
                   results>>
    /\ UNCHANGED <<prVars, fmtVars, mentionVars, extractVars, mdVars, resolveVars, mainVars>>

\* lines 836-837: wiki fetching disabled
SkipConfluence ==
    /\ pc = "run_start"
    /\ ~fetch_confluence
    /\ pc' = "run_loop"
    /\ UNCHANGED <<prVars, fmtVars, mentionVars, extractVars, runVars, mdVars, resolveVars, mainVars>>

\* lines 864-1032: one iteration of the loop over the tickets.  An update
\* request that raises ends the run: the exception leaves the loop and
\* process_tickets_with_test_cases.
ProcessTicket ==
    /\ pc = "run_loop"
    /\ next_ticket <= Len(tickets)
    /\ LET t == tickets[next_ticket]
           o == outcomes[next_ticket]
           confluence_context ==
               ConfluenceContext(tickets, next_ticket, confluence_docs, confluence_mentions)
           g == generate_test_cases(t, PrContext(t), ParentContext(t), confluence_context, o)
           w == WriteBack(g.test_cases, o)
       IN  /\ contexts' = Append(contexts, confluence_context)
           /\ generation_contexts' = Append(generation_contexts, g.generation_context)
           /\ update_calls' = IF w.update_called THEN Append(update_calls, UpdateCall(t, o))
                              ELSE update_calls
           /\ results' = Append(results, w)
           /\ pc' = IF w.raised THEN "run_crashed" ELSE "run_loop"
    /\ next_ticket' = next_ticket + 1
    /\ UNCHANGED <<tickets, fetch_confluence, wiki_hits, fetch_failing, confluence_docs,
                   confluence_mentions, page_requests, outcomes>>
    /\ UNCHANGED <<prVars, fmtVars, mentionVars, extractVars, mdVars, resolveVars, mainVars>>

\* line 1034
FinishRun ==
    /\ pc = "run_loop"
    /\ next_ticket > Len(tickets)
    /\ pc' = "run_done"
    /\ UNCHANGED <<prVars, fmtVars, mentionVars, extractVars, runVars, mdVars, resolveVars, mainVars>>

NextRun == FetchDocumentation \/ FindMentions \/ SkipConfluence \/ ProcessTicket \/ FinishRun

SpecRun == InitRun /\ [][NextRun]_vars

\* the keys of the batches of SpecBatch
BatchKeys == {KeyName(i) : i \in 1..MaxBatch} \cup {ParentKey}

\* the wiki of SpecBatch: one page mentions the first ticket
BatchHits ==
    [k \in BatchKeys |-> IF k = KeyName(1) THEN [search |-> <<"p1">>, storage |-> <<>>]
                         ELSE [search |-> <<>>, storage |-> <<>>]]

\* batches whose first ticket has any shape, with a service that answers
\* every ticket alike
ShapeCases ==
    {[tks |-> [i \in 1..n |-> IF i = 1 THEN Ticket(KeyName(1), l, h, p)
                              ELSE Ticket(KeyName(i), <<>>, FALSE, PlainProfile)],
      outs |-> [i \in 1..n |-> o]] :
        n \in 1..MaxBatch, l \in {<<>>, <<"p1">>}, h \in BOOLEAN, p \in Profiles,
        o \in Outcomes}

\* batches of plain tickets, with every combination of answers
AnswerCases ==
    UNION {{[tks |-> [i \in 1..n |-> Ticket(KeyName(i), <<>>, FALSE, PlainProfile)],
             outs |-> outs] : outs \in [1..n -> Outcomes]} : n \in 1..MaxBatch}

InitBatch ==
    /\ pc = "run_start"
    /\ \E c \in ShapeCases \cup AnswerCases :
        /\ tickets = c.tks
        /\ outcomes = c.outs
    /\ fetch_confluence \in BOOLEAN
    /\ wiki_hits = BatchHits
    /\ fetch_failing = {}
    /\ confluence_docs = <<>>
    /\ confluence_mentions = <<>>
    /\ page_requests = <<>>
    /\ next_ticket = 1
    /\ contexts = <<>>
    /\ generation_contexts = <<>>
    /\ update_calls = <<>>
    /\ results = <<>>
    /\ IdlePR /\ IdleFmt /\ IdleMention /\ IdleExtract /\ IdleMd /\ IdleResolve /\ IdleMain

SpecBatch == InitBatch /\ [][NextRun]_vars

\* number of entries of a context that carry the content of page pg
ContentCount(ctx, pg) ==
    Cardinality({k \in DOMAIN ctx : ctx[k].page = pg /\ ctx[k].has_content})

\* page pg was found for ticket i by the mention search, with its content
MentionedWithContent(i, pg) ==
    \E k \in Range(RelevantKeys(tickets, i)) :
        /\ k \in DOMAIN confluence_mentions
        /\ \E m \in Range(confluence_mentions[k]) : m.page = pg /\ m.has_body

\* C6: a page found both by direct-link extraction and by the mention
\* search has its content exactly once in the wiki section of the context.
C6_PageContentOnce ==
    \A i \in DOMAIN contexts : \A pg \in PageIds :
        (pg \in Range(confluence_docs) /\ MentionedWithContent(i, pg))
            => ContentCount(contexts[i], pg) = 1

\* C13: whatever enrichment sections a ticket has, the context built for it
\* begins with the base section, which names the ticket and carries its
\* description and its acceptance criteria at their full length; no other
\* section of the context is a base section.
C13_BaseSectionFirstAndComplete ==
    \A i \in DOMAIN generation_contexts :
        LET c == generation_contexts[i]
            t == tickets[i]
        IN  /\ c[1].name = "base"
            /\ c[1].key = t.key
            /\ c[1].description_len = t.description_len
            /\ (t.has_ac => c[1].ac_len = t.ac_len)
            /\ \A k \in 2..Len(c) : c[k].name # "base"

\* a ticket with long description and acceptance criteria and with all five
\* enrichment sections
C13_Witness ==
    \E i \in DOMAIN generation_contexts :
        /\ Len(generation_contexts[i]) = 6
        /\ tickets[i].description_len = 9000
        /\ tickets[i].has_ac /\ tickets[i].ac_len = 9000

RunOver == pc \in {"run_done", "run_crashed"}

\* C14: when the generation call fails for a ticket, generation is still
\* attempted for every later ticket of the batch.
C14_LaterTicketsStillAttempted ==
    RunOver =>
        \A i \in DOMAIN generation_contexts :
            outcomes[i].gen # "text"
                => \A j \in DOMAIN tickets : j > i => j \in DOMAIN generation_contexts

\* C15: a ticket whose generation returns no text gets no write-back, is
\* marked test_cases_updated = False and gets no test_cases value.
C15_NoWriteBackWithoutText ==
    \A i \in DOMAIN results :
        outcomes[i].gen # "text"
            => /\ ~results[i].update_called
               /\ results[i].test_cases_updated = "False"
               /\ ~results[i].has_test_cases
               /\ \A k \in DOMAIN update_calls : update_calls[k].key # tickets[i].key

\* a ticket whose generation failed was handled, and another ticket of the
\* batch was written back
C15_Witness ==
    /\ pc = "run_done"
    /\ \E i \in DOMAIN results : outcomes[i].gen = "error"
    /\ \E i \in DOMAIN results : outcomes[i].gen = "empty"
    /\ update_calls # <<>>

\* C17: update_jira_field returns True exactly when the tracker answers the
\* update with status 204, and the ticket is marked updated exactly then.
C17_SuccessIffNoContentStatus ==
    /\ \A k \in DOMAIN update_calls :
        ~update_calls[k].transport_error
            => (update_calls[k].returned <=> update_calls[k].status = 204)
    /\ \A i \in DOMAIN results :
        (results[i].update_called /\ ~results[i].raised)
            => (results[i].test_cases_updated = "True" <=> outcomes[i].status = 204)

\* one update answered 204 and reported as success, one answered 200 and
\* reported as failure
C17_Witness ==
    /\ \E k \in DOMAIN update_calls :
        update_calls[k].status = 204 /\ update_calls[k].returned
    /\ \E k \in DOMAIN update_calls :
        update_calls[k].status = 200 /\ ~update_calls[k].returned

\* C21: no error of a per-ticket operation, a transport exception of the
\* field write-back included, aborts the run: the ticket whose operation
\* failed is recorded without data and the loop goes on, so a run that is
\* over has handled every ticket of the batch and ended normally.
C21_NoErrorAbortsRun ==
    /\ \A i \in DOMAIN results :
        (outcomes[i].gen = "error" \/ outcomes[i].transport_error) => ~results[i].raised
    /\ RunOver => (pc = "run_done" /\ Len(results) = Len(tickets))

\* number of content requests issued for page pg
RequestCount(pg) == Cardinality({k \in DOMAIN page_requests : page_requests[k] = pg})

\* C25: a page whose content was fetched as a direct mention is not fetched
\* again by the mention search: one content request at most is issued for
\* its page id during the run.
C25_NoSecondContentRequest ==
    fetch_confluence => \A pg \in Range(confluence_docs) : RequestCount(pg) <= 1

\* the place of a section in the order the context is said to follow
SectionRank(name) ==
    CASE name = "base" -> 1
      [] name = "pull_request" -> 2
      [] name = "parent" -> 3
      [] name = "confluence" -> 4
      [] name = "comments" -> 5
      [] name = "attachments" -> 6
      [] OTHER -> 0

\* the place of a page entry inside the wiki section
EntryRank(section) == IF section = "documentation" THEN 1 ELSE 2

\* C26: the sections of a ticket's context appear in one fixed order: base
\* fields, pull-request context, parent context, wiki context (documentation
\* before mentions), comments, attachments; no section comes before one of
\* higher priority and none appears twice.
C26_SectionsInFixedOrder ==
    \A i \in DOMAIN generation_contexts :
        LET c == generation_contexts[i]
        IN  /\ \A k \in DOMAIN c : SectionRank(c[k].name) > 0
            /\ \A k1, k2 \in DOMAIN c :
                k1 < k2 => SectionRank(c[k1].name) < SectionRank(c[k2].name)
            /\ \A k \in DOMAIN c : \A e1, e2 \in DOMAIN c[k].entries :
                e1 < e2 => EntryRank(c[k].entries[e1].section)
                              <= EntryRank(c[k].entries[e2].section)

\* a context with all six sections whose wiki section holds a linked page
\* and a page found by the mention search
C26_Witness ==
    \E i \in DOMAIN generation_contexts :
        LET c == generation_contexts[i]
        IN  /\ {c[k].name : k \in DOMAIN c} =
                {"base", "pull_request", "parent", "confluence", "comments", "attachments"}
            /\ \E k \in DOMAIN c :
                /\ \E e \in DOMAIN c[k].entries : c[k].entries[e].section = "documentation"
                /\ \E e \in DOMAIN c[k].entries : c[k].entries[e].section = "mentions"

\* the context of ticket t when it is processed alone, with the same wiki
\* and the same settings
ContextAlone(t) ==
    LET docs == fetch_all_mentioned_documentation(<<t>>, fetch_failing,
                    [docs |-> <<>>, requests |-> <<>>]).docs
        mentions == find_confluence_mentions_for_tickets(<<t>>, wiki_hits, fetch_failing)
    IN  GenerationContext(t, PrContext(t), ParentContext(t),
            IF fetch_confluence THEN ConfluenceContext(<<t>>, 1, docs, mentions) ELSE <<>>)

\* C29: the context of a ticket depends on that ticket's own data only: a
\* ticket that has no parent, hence no sibling in the batch, gets in a batch
\* the context it gets when processed alone, so a wiki page linked only
\* from another ticket never appears in it.
C29_ContextIndependentOfBatch ==
    \A i \in DOMAIN generation_contexts :
        ~tickets[i].has_parent => generation_contexts[i] = ContextAlone(tickets[i])

(***************************************************************************)
(* The entry point: main                                                   *)
(***************************************************************************)
MaxFound == 2

\* an environment variable: not set, set to the empty string, set to a value
EnvValues == {"unset", "", "value"}

\* JQL_QUERY is set ("env"); or it is not and the prompt gets a query
\* ("typed"), the Enter key ("default") or the end of input ("eof")
QuerySources == {"env", "typed", "default", "eof"}

CredentialsMissingEmailOnly(email, api_token) == email \in {"unset", ""}

\* line 2194: not email or not api_token
CredentialsMissing(email, api_token) ==
    email \in {"unset", ""} \/ api_token \in {"unset", ""}

\* the services fetch_tickets_with_criteria sends requests to: the tracker
\* for the field catalog and the search, the source-control host for the
\* pull requests of every ticket found
FetchServices(n) == {"tracker"} \cup (IF n > 0 THEN {"source_control"} ELSE {})

\* the services process_tickets_with_test_cases sends requests to
ProcessServices(n) ==
    FetchServices(n) \cup (IF n > 0 THEN {"generation"} ELSE {})

ExitStatusFullModeOnly(preview, tks) ==
    IF tks = <<>> /\ ~preview THEN "nonzero" ELSE "zero"

\* lines 2218-2231 and 2248-2259: exit(1) when the list is empty, in
\* preview mode and in full mode alike
ExitStatus(preview, tks) == IF tks = <<>> THEN "nonzero" ELSE "zero"

InitMain ==
    /\ pc = "main_start"
    /\ jira_email \in EnvValues
    /\ jira_api_token \in EnvValues
    /\ jql_query \in QuerySources
    /\ preview_mode \in BOOLEAN
    /\ generate_flag \in BOOLEAN
    /\ tickets_found \in 0..MaxFound
    /\ call_raises \in BOOLEAN
    /\ main_tickets = <<>>
    /\ network_requests = {}
    /\ exit_status = "running"
    /\ IdlePR /\ IdleFmt /\ IdleMention /\ IdleExtract /\ IdleRun /\ IdleMd /\ IdleResolve

\* lines 2190-2199: without credentials main returns
CheckCredentials ==
    /\ pc = "main_start"
    /\ IF CredentialsMissing(jira_email, jira_api_token)
       THEN pc' = "main_returned" /\ exit_status' = "zero"
       ELSE pc' = "main_query" /\ exit_status' = exit_status
    /\ UNCHANGED <<jira_email, jira_api_token, jql_query, preview_mode, generate_flag, tickets_found,
                   call_raises, main_tickets, network_requests>>
    /\ UNCHANGED <<prVars, fmtVars, mentionVars, extractVars, runVars, mdVars, resolveVars>>

\* lines 2201-2209: the query; input() without a terminal raises EOFError,
\* which ends the process with a traceback
ReadQuery ==
    /\ pc = "main_query"
    /\ IF jql_query = "eof"
       THEN pc' = "main_crashed" /\ exit_status' = "nonzero"
       ELSE pc' = "main_mode" /\ exit_status' = exit_status
    /\ UNCHANGED <<jira_email, jira_api_token, jql_query, preview_mode, generate_flag, tickets_found,
                   call_raises, main_tickets, network_requests>>
    /\ UNCHANGED <<prVars, fmtVars, mentionVars, extractVars, runVars, mdVars, resolveVars>>

\* lines 2214-2231: preview mode
RunPreview ==
    /\ pc = "main_mode"
    /\ preview_mode
    /\ network_requests' = FetchServices(tickets_found)
    /\ IF call_raises
       THEN /\ pc' = "main_crashed"
            /\ main_tickets' = main_tickets
            /\ exit_status' = "nonzero"
       ELSE /\ pc' = "main_done"
            /\ main_tickets' = [k \in 1..tickets_found |-> KeyName(k)]
            /\ exit_status' = ExitStatus(TRUE, [k \in 1..tickets_found |-> KeyName(k)])
    /\ UNCHANGED <<jira_email, jira_api_token, jql_query, preview_mode, generate_flag, tickets_found,
                   call_raises>>
    /\ UNCHANGED <<prVars, fmtVars, mentionVars, extractVars, runVars, mdVars, resolveVars>>

\* lines 2232-2259: full mode, with or without test case generation
RunFull ==
    /\ pc = "main_mode"
    /\ ~preview_mode
    /\ network_requests' = IF generate_flag THEN ProcessServices(tickets_found)
                           ELSE FetchServices(tickets_found)
    /\ IF call_raises
       THEN /\ pc' = "main_crashed"
            /\ main_tickets' = main_tickets
            /\ exit_status' = "nonzero"
       ELSE /\ pc' = "main_done"
            /\ main_tickets' = [k \in 1..tickets_found |-> KeyName(k)]
            /\ exit_status' = ExitStatus(FALSE, [k \in 1..tickets_found |-> KeyName(k)])
    /\ UNCHANGED <<jira_email, jira_api_token, jql_query, preview_mode, generate_flag, tickets_found,
                   call_raises>>
    /\ UNCHANGED <<prVars, fmtVars, mentionVars, extractVars, runVars, mdVars, resolveVars>>

NextMain == CheckCredentials \/ ReadQuery \/ RunPreview \/ RunFull

SpecMain == InitMain /\ [][NextMain]_vars

\* C16: when JIRA_EMAIL or JIRA_API_TOKEN is missing, main never sends a
\* request to any service, and it ends by returning right after the check.
C16_NoRequestWithoutCredentials ==
    (jira_email \in {"unset", ""} \/ jira_api_token \in {"unset", ""}) =>
        /\ network_requests = {}
        /\ pc \in {"main_start", "main_returned"}

\* the e-mail is set, the token is missing, and main has returned
C16_Witness ==
    /\ pc = "main_returned"
    /\ jira_email = "value" /\ jira_api_token = "unset"
    /\ network_requests = {}

\* C20: in preview mode and in full mode, once the ticket list is back,
\* main exits non-zero exactly when the list is empty.
C20_NonZeroExitIffNoTickets ==
    pc = "main_done" => (exit_status = "nonzero" <=> main_tickets = <<>>)

\* preview mode ended with an empty list and a non-zero exit
C20_Witness ==
    /\ pc = "main_done"
    /\ preview_mode
    /\ main_tickets = <<>>
    /\ exit_status = "nonzero"

=============================================================================
